---- MODULE Spec2Model ----
(***************************************************************************)
(* State-machine model of the ARAI saliency training entry point           *)
(* (backend/training/train_saliency.py: main and SaliencyTrainer) and of   *)
(* the command-line analysis entry points (backend/analyze_design.py,      *)
(* backend/batch_analyze.py) that construct a                              *)
(* ComprehensiveAttentionAnalyzer.                                         *)
(***************************************************************************)
EXTENDS Integers, Sequences, FiniteSets, TLC

(***************************************************************************)
(* Bounds of the model.                                                    *)
(***************************************************************************)
MaxEpochs == 10      \* num_epochs is drawn from 0..MaxEpochs
MaxLoss == 1         \* a validation loss is drawn from 0..MaxLoss (loss units)
MaxSamples == 2      \* len(dataset) is drawn from 0..MaxSamples
MaxRuns == 2         \* runs of the training script on the same save_dir
MaxFiles == 3        \* entries of the batch input directory
MaxSide == 2         \* image.height and image.width are drawn from 1..MaxSide
MaxFeature == 2      \* a pixel's contrast + colour + edge + F-pattern terms: 0..MaxFeature
MaxLevel == 2        \* the model's output at a pixel is k / MaxLevel, k in 0..MaxLevel
ModelSide == 2       \* side of the model's output map (256 in the program)
MaxDim == 17         \* height and width of the tensor given to forward: 1..MaxDim
MaxIssues == 8       \* length of the issue list given to _calculate_score
MaxLoadSteps == 2    \* cognitive-load scores 0, 100 / MaxLoadSteps, ..., 100
ElementStep == 25    \* element counts 0, ElementStep, ..., ElementStep * MaxElementSteps
MaxElementSteps == 3
ColorStep == 5       \* dominant-colour counts 0, ColorStep, ..., ColorStep * MaxColorSteps
MaxColorSteps == 3
DensityStep == 100   \* densities 0, DensityStep, ... thousandths, at most 1000
MaxDensitySteps == 10
EntropyStep == 500   \* entropies at and just below the multiples of EntropyStep
MaxEntropySteps == 13   \* thousandths of a bit
MaxSegments == 3     \* runs of equal contours in the contour list of an image
MaxBandHeight == 4   \* heights 1..MaxBandHeight of the maps given to _assess_visual_hierarchy
MaxBandWidth == 3    \* widths 1..MaxBandWidth of those maps
MapLevels == 1       \* a value of those maps is k / MapLevels, k in 0..MapLevels
MaxThumbnails == 2   \* distinct 256 x 256 tensors that self.transform can produce
MaxRequests == 2     \* calls of analyze_design on the one analyzer, in any interleaving
MaxEntries == 2      \* entries of image_dir

(***************************************************************************)
(* Program constants.                                                      *)
(***************************************************************************)
CheckpointEvery == 10     \* if (epoch + 1) % 10 == 0
Patience == 5             \* ReduceLROnPlateau(patience=5)
BatchSize == 8            \* --batch_size default
DefaultSplitPct == 80     \* --train_split default 0.8, in percent
LrOverEps == 10000        \* --learning_rate default 1e-4 over the scheduler's eps 1e-8
ThresholdDen == 10000     \* ReduceLROnPlateau threshold 1e-4 (mode 'rel'): 1 - 1/10000

\* float('inf'): above every finite loss of the model
Inf == MaxLoss + 1

LossValues == 0..MaxLoss

\* --train_split values explored, in percent (int(train_split * n) is exact for them)
SplitPcts == {0, DefaultSplitPct, 100}

\* contents of a file on disk
NoFile == [kind |-> "absent"]
Partial == [kind |-> "partial"]

\* Python's None
None == [kind |-> "none"]

VARIABLES
    pc,               \* position in main / SaliencyTrainer.train
    image_dir_exists, \* os.listdir(image_dir) succeeds
    dataset_len,      \* len(dataset)
    train_split,      \* config['train_split'], percent
    num_epochs,       \* config['num_epochs']
    train_size,       \* main: train_size
    val_size,         \* main: val_size
    epoch,            \* loop variable of train (0-based)
    weights,          \* self.model: number of training passes applied to the fresh model
    train_losses,     \* self.train_losses
    val_losses,       \* self.val_losses
    best_val_loss,    \* self.best_val_loss
    sched_best,       \* self.scheduler.best
    num_bad_epochs,   \* self.scheduler.num_bad_epochs
    lr_halvings,      \* optimizer lr = learning_rate * 0.5^lr_halvings
    best_file,        \* save_dir/saliency_model.pth
    ckpt_files,       \* save_dir/checkpoint_epoch_<e>.pth, e -> content
    best_saved,       \* history: epochs (from 1) whose best-model save completed
    lr_cut,           \* history: epochs (from 1) whose scheduler step halved the lr
    run,              \* history: number of the current run of the training script
    entry,            \* the script that runs: "train", "single" or "batch"
    model_file,       \* models/saliency_model.pth as the analysis scripts find it
    input_dir_exists, \* batch_analyze.py: os.path.exists(input_dir)
    image,            \* analyze_design.py: what image_path holds
    listing,          \* batch_analyze.py: os.listdir(input_dir), entry kinds
    image_files,      \* batch_analyze.py: image_files (positions in listing)
    analyzer,         \* the ComprehensiveAttentionAnalyzer: its saliency source
    item,             \* batch_analyze.py: number of items taken by the for loop
    result,           \* the local `result` of the current analysis
    results,          \* batch_analyze.py: results
    reports,          \* report files written: item positions; 0 is the script's own report
    attempts,         \* history: items handed to analyzer.analyze_design, in order
    ret               \* what the script's function returned

VARIABLES
    has_model,        \* _generate_saliency_heatmap: truth of self.model
    img_height,       \* image.height
    img_width,        \* image.width
    saliency_map,     \* _generate_saliency_heatmap: saliency_map
    x_shape,          \* SaliencyModel.forward: height and width of x
    forward_out,      \* SaliencyModel.forward: the shape returned, or the error raised
    issues,           \* _calculate_score: issues (the severity of each, or its absence)
    cl_score,         \* _calculate_score: cognitive_load["cognitive_load_score"]
    score,            \* _calculate_score: the value returned
    element_count,    \* _estimate_cognitive_load: element_count
    colors,           \* _estimate_cognitive_load: dominant_colors
    density,          \* _estimate_cognitive_load: visual_density
    entropy,          \* _estimate_cognitive_load: attention_entropy
    cognitive_load,   \* _estimate_cognitive_load: the record returned
    contours,         \* _identify_critical_elements: contours, as bounding boxes
    critical_elements, \* _identify_critical_elements: the list returned
    priority_issues,  \* _verify_attention_priority: the list returned
    hierarchy,        \* _assess_visual_hierarchy: the record returned
    image_dir,        \* SaliencyDataset: os.listdir(image_dir)
    saliency_dir,     \* SaliencyDataset: the entries of saliency_dir
    dataset_files,    \* SaliencyDataset: self.image_files
    sample,           \* SaliencyDataset.__getitem__: what the call returned or raised
    self_fields,      \* ComprehensiveAttentionAnalyzer: the attributes of self
    design,           \* analyze_design: what Image.open(image_path) holds
    report,           \* analyze_design: the locals, then the dict returned
    analyses          \* history: the designs analysed and the reports returned

training == <<image_dir_exists, dataset_len, train_split, num_epochs, train_size,
              val_size, epoch, weights, train_losses, val_losses, best_val_loss,
              sched_best, num_bad_epochs, lr_halvings, best_file, ckpt_files,
              best_saved, lr_cut, run>>

analysis == <<model_file, input_dir_exists, image, listing, image_files, analyzer, item,
              result, results, reports, attempts, ret>>

\* the analyzer's methods: their arguments, locals and results
heatmap == <<has_model, img_height, img_width, saliency_map>>
forward == <<x_shape, forward_out>>
scoring == <<issues, cl_score, score>>
load == <<element_count, colors, density, entropy, cognitive_load>>
elements == <<contours, critical_elements, priority_issues>>
bands == <<hierarchy>>
dataset == <<image_dir, saliency_dir, dataset_files, sample>>
request == <<self_fields, design, report, analyses>>
stages == <<bands, dataset, request>>
pipeline == <<heatmap, forward, scoring, load, elements, stages>>

vars == <<pc, entry, training, analysis, pipeline>>

\* what a step of train_saliency.py leaves alone
others == <<run, entry, analysis, pipeline>>

config == <<image_dir_exists, dataset_len, train_split, num_epochs>>
sizes == <<train_size, val_size>>
trainer == <<weights, train_losses, val_losses, best_val_loss>>
scheduler == <<sched_best, num_bad_epochs, lr_halvings, lr_cut>>
disk == <<best_file, ckpt_files, best_saved>>

\* positions inside the try block of main, i.e. inside trainer.train(...)
TrainPcs == {"loop", "train_pass", "validate", "sched_step", "best_decision",
             "best_open", "best_write", "ckpt_decision", "ckpt_open", "ckpt_write",
             "plot"}

\* len(DataLoader(subset, batch_size)) = ceil(len(subset) / batch_size)
NumBatches(size) == (size + BatchSize - 1) \div BatchSize

\* int(train_split * len(dataset))
TrainSize(split, n) == (split * n) \div 100

(***************************************************************************)
(* main: dataset loading and split                                         *)
(***************************************************************************)
\* SaliencyTrainer.__init__
TrainerInit ==
    /\ weights = 0
    /\ train_losses = <<>>
    /\ val_losses = <<>>
    /\ best_val_loss = Inf
    /\ sched_best = Inf
    /\ num_bad_epochs = 0
    /\ lr_halvings = 0
    /\ lr_cut = {}

\* the analysis scripts are not running
AnalysisIdle ==
    /\ model_file = "absent"
    /\ input_dir_exists = FALSE
    /\ image = "missing"
    /\ listing = <<>>
    /\ image_files = <<>>
    /\ analyzer = "none"
    /\ item = 0
    /\ result = None
    /\ results = <<>>
    /\ reports = {}
    /\ attempts = <<>>
    /\ ret = None

\* no method of the analyzer is running
HeatmapIdle ==
    /\ has_model = FALSE
    /\ img_height = 0
    /\ img_width = 0
    /\ saliency_map = None

ForwardIdle ==
    /\ x_shape = <<0, 0>>
    /\ forward_out = None

ScoringIdle ==
    /\ issues = <<>>
    /\ cl_score = 0
    /\ score = None

LoadIdle ==
    /\ element_count = 0
    /\ colors = 0
    /\ density = 0
    /\ entropy = 0
    /\ cognitive_load = None

ElementsIdle ==
    /\ contours = <<>>
    /\ critical_elements = <<>>
    /\ priority_issues = <<>>

BandsIdle == hierarchy = None

DatasetIdle ==
    /\ image_dir = <<>>
    /\ saliency_dir = {}
    /\ dataset_files = <<>>
    /\ sample = None

RequestIdle ==
    /\ self_fields = None
    /\ design = None
    /\ report = None
    /\ analyses = <<>>

StagesIdle ==
    /\ BandsIdle
    /\ DatasetIdle
    /\ RequestIdle

PipelineIdle ==
    /\ StagesIdle
    /\ HeatmapIdle
    /\ ForwardIdle
    /\ ScoringIdle
    /\ LoadIdle
    /\ ElementsIdle

\* python train_saliency.py on an empty save_dir
Init ==
    /\ entry = "train"
    /\ pc = "load_dataset"
    /\ image_dir_exists \in BOOLEAN
    /\ dataset_len \in 0..MaxSamples
    /\ train_split \in SplitPcts
    /\ num_epochs \in 0..MaxEpochs
    /\ train_size = 0
    /\ val_size = 0
    /\ epoch = 0
    /\ TrainerInit
    /\ best_file = NoFile
    /\ ckpt_files = <<>>
    /\ best_saved = {}
    /\ run = 1
    /\ AnalysisIdle
    /\ PipelineIdle

\* main, lines 227-247: SaliencyDataset(...) and the empty-dataset guard
LoadDataset ==
    /\ UNCHANGED others
    /\ pc = "load_dataset"
    /\ pc' = IF ~image_dir_exists THEN "aborted_no_dir"
             ELSE IF dataset_len = 0 THEN "aborted_no_data"
             ELSE "split"
    /\ UNCHANGED <<config, sizes, epoch, trainer, scheduler, disk>>

\* main, lines 250-252: random_split(dataset, [train_size, val_size])
SplitDataset ==
    /\ UNCHANGED others
    /\ pc = "split"
    /\ train_size' = TrainSize(train_split, dataset_len)
    /\ val_size' = dataset_len - TrainSize(train_split, dataset_len)
    /\ pc' = "make_loaders"
    /\ UNCHANGED <<config, epoch, trainer, scheduler, disk>>

\* main, lines 257-301: DataLoader(...), SaliencyModel(), SaliencyTrainer(...) and the
\* call of trainer.train.  DataLoader(train_dataset, shuffle=True) builds a
\* RandomSampler, which rejects an empty data source with ValueError; main does not
\* catch it.  The validation loader (shuffle=False) accepts an empty subset.
MakeLoaders ==
    /\ UNCHANGED others
    /\ pc = "make_loaders"
    /\ pc' = IF train_size = 0 THEN "crashed_sampler" ELSE "loop"
    /\ UNCHANGED <<config, sizes, epoch, trainer, scheduler, disk>>

(***************************************************************************)
(* SaliencyTrainer.train                                                   *)
(***************************************************************************)
Last(s) == s[Len(s)]

RECURSIVE Pow2(_)
Pow2(k) == IF k = 0 THEN 1 ELSE 2 * Pow2(k - 1)

\* for epoch in range(num_epochs)
LoopContinues(e, n) == e < n

\* a save on every epoch that merely ties the running minimum
ImprovesBestOrTies(v, best) == v <= best

\* a save at the end of every epoch
ImprovesBestAlways(v, best) == TRUE

\* if val_loss < self.best_val_loss
ImprovesBest(v, best) == v < best

\* the period tested on the 0-based loop variable
IsCheckpointEpochZeroBased(e) == e % CheckpointEvery = 0

\* if (epoch + 1) % 10 == 0
IsCheckpointEpoch(e) == (e + 1) % CheckpointEvery = 0

\* ReduceLROnPlateau.is_better, mode='min', threshold_mode='rel', threshold=1e-4:
\* current < best * (1 - threshold)
IsBetter(current, best) ==
    IF best = Inf THEN TRUE
    ELSE current * ThresholdDen < best * (ThresholdDen - 1)

\* the reduction taken as soon as the count reaches the patience
PlateauReachedAtPatience(bad) == bad >= Patience

\* ReduceLROnPlateau.step: if self.num_bad_epochs > self.patience
PlateauReached(bad) == bad > Patience

\* ReduceLROnPlateau._reduce_lr: new_lr = old_lr * 0.5 is set only if
\* old_lr - new_lr > eps, i.e. learning_rate * 0.5^(k+1) > eps
ReductionApplies(k) == Pow2(k + 1) < LrOverEps

\* what torch.save(self.model.state_dict(), model_path) leaves when it completes
BestContent(w) == [kind |-> "weights", weights |-> w]

\* the dict of lines 113-119
Snapshot(e, w, opt, tl, vl) ==
    [kind |-> "snapshot", epoch |-> e, model_state_dict |-> w,
     optimizer_state_dict |-> opt, train_loss |-> tl, val_loss |-> vl]

\* a validation pass that takes an optimizer step
ValidatedWeightsStepped(w) == w + 1

\* validate, lines 61-75: the model in eval mode under torch.no_grad(), the loss
\* summed, no backward pass and no optimizer step
ValidatedWeights(w) == w

\* line 86
LoopHead ==
    /\ UNCHANGED others
    /\ pc = "loop"
    /\ pc' = IF LoopContinues(epoch, num_epochs) THEN "train_pass" ELSE "plot"
    /\ UNCHANGED <<config, sizes, epoch, trainer, scheduler, disk>>

\* lines 90-91 and train_epoch (37-59): one optimizer pass over train_loader, then
\* epoch_loss / len(train_loader).  The loss of pass k is identified with k: its
\* value takes no part in any decision of the program.
TrainEpoch ==
    /\ UNCHANGED others
    /\ pc = "train_pass"
    /\ IF NumBatches(train_size) = 0
       THEN /\ pc' = "crashed_zero_division"
            /\ UNCHANGED trainer
       ELSE /\ weights' = weights + 1
            /\ train_losses' = Append(train_losses, weights + 1)
            /\ pc' = "validate"
            /\ UNCHANGED <<val_losses, best_val_loss>>
    /\ UNCHANGED <<config, sizes, epoch, scheduler, disk>>

\* lines 94-95 and validate (61-75): no optimizer step, then
\* val_loss / len(val_loader)
Validate ==
    /\ UNCHANGED others
    /\ pc = "validate"
    /\ IF NumBatches(val_size) = 0
       THEN /\ pc' = "crashed_zero_division"
            /\ UNCHANGED trainer
       ELSE /\ \E v \in LossValues : val_losses' = Append(val_losses, v)
            /\ weights' = ValidatedWeights(weights)
            /\ pc' = "sched_step"
            /\ UNCHANGED <<train_losses, best_val_loss>>
    /\ UNCHANGED <<config, sizes, epoch, scheduler, disk>>

\* line 98: self.scheduler.step(val_loss)
SchedulerStep ==
    /\ UNCHANGED others
    /\ pc = "sched_step"
    /\ LET v == Last(val_losses)
           better == IsBetter(v, sched_best)
           bad == IF better THEN 0 ELSE num_bad_epochs + 1
       IN /\ sched_best' = IF better THEN v ELSE sched_best
          /\ IF PlateauReached(bad)
             THEN /\ num_bad_epochs' = 0
                  /\ IF ReductionApplies(lr_halvings)
                     THEN /\ lr_halvings' = lr_halvings + 1
                          /\ lr_cut' = lr_cut \cup {epoch + 1}
                     ELSE UNCHANGED <<lr_halvings, lr_cut>>
             ELSE /\ num_bad_epochs' = bad
                  /\ UNCHANGED <<lr_halvings, lr_cut>>
    /\ pc' = "best_decision"
    /\ UNCHANGED <<config, sizes, epoch, trainer, disk>>

\* lines 104-106
BestDecision ==
    /\ UNCHANGED others
    /\ pc = "best_decision"
    /\ IF ImprovesBest(Last(val_losses), best_val_loss)
       THEN /\ best_val_loss' = Last(val_losses)
            /\ pc' = "best_open"
       ELSE /\ pc' = "ckpt_decision"
            /\ UNCHANGED best_val_loss
    /\ UNCHANGED <<config, sizes, epoch, weights, train_losses, val_losses,
                   scheduler, disk>>

\* line 107, torch.save: the file at model_path is opened for writing, which
\* truncates what it held
BestOpen ==
    /\ UNCHANGED others
    /\ pc = "best_open"
    /\ best_file' = Partial
    /\ pc' = "best_write"
    /\ UNCHANGED <<config, sizes, epoch, trainer, scheduler, ckpt_files, best_saved>>

\* line 107, torch.save: the state dict is written and the file closed
BestWrite ==
    /\ UNCHANGED others
    /\ pc = "best_write"
    /\ best_file' = BestContent(weights)
    /\ best_saved' = best_saved \cup {epoch + 1}
    /\ pc' = "ckpt_decision"
    /\ UNCHANGED <<config, sizes, epoch, trainer, scheduler, ckpt_files>>

\* lines 111-112, and the end of the loop body
CkptDecision ==
    /\ UNCHANGED others
    /\ pc = "ckpt_decision"
    /\ IF IsCheckpointEpoch(epoch)
       THEN /\ pc' = "ckpt_open"
            /\ UNCHANGED epoch
       ELSE /\ pc' = "loop"
            /\ epoch' = epoch + 1
    /\ UNCHANGED <<config, sizes, trainer, scheduler, disk>>

\* line 113, torch.save: checkpoint_epoch_{epoch+1}.pth is opened for writing
CkptOpen ==
    /\ UNCHANGED others
    /\ pc = "ckpt_open"
    /\ ckpt_files' = ((epoch + 1) :> Partial) @@ ckpt_files
    /\ pc' = "ckpt_write"
    /\ UNCHANGED <<config, sizes, epoch, trainer, scheduler, best_file, best_saved>>

\* lines 113-120: the snapshot is written and the file closed; end of the loop body
CkptWrite ==
    /\ UNCHANGED others
    /\ pc = "ckpt_write"
    /\ ckpt_files' = ((epoch + 1) :> Snapshot(epoch, weights, lr_halvings,
                                               Last(train_losses), Last(val_losses)))
                     @@ ckpt_files
    /\ epoch' = epoch + 1
    /\ pc' = "loop"
    /\ UNCHANGED <<config, sizes, trainer, scheduler, best_file, best_saved>>

\* lines 122-130: plot_losses and return self.model
PlotAndReturn ==
    /\ UNCHANGED others
    /\ pc = "plot"
    /\ pc' = "returned"
    /\ UNCHANGED <<config, sizes, epoch, trainer, scheduler, disk>>

\* KeyboardInterrupt raised while trainer.train runs; caught at main line 302
Interrupt ==
    /\ UNCHANGED others
    /\ pc \in TrainPcs
    /\ pc' = "interrupted"
    /\ UNCHANGED <<config, sizes, epoch, trainer, scheduler, disk>>

\* main, lines 302-313: the except branch prints, then both paths print "Done!"
MainEnd ==
    /\ UNCHANGED others
    /\ pc \in {"returned", "interrupted"}
    /\ pc' = IF pc = "returned" THEN "done" ELSE "done_after_interrupt"
    /\ UNCHANGED <<config, sizes, epoch, trainer, scheduler, disk>>

Next ==
    \/ LoadDataset
    \/ SplitDataset
    \/ MakeLoaders
    \/ LoopHead
    \/ TrainEpoch
    \/ Validate
    \/ SchedulerStep
    \/ BestDecision
    \/ BestOpen
    \/ BestWrite
    \/ CkptDecision
    \/ CkptOpen
    \/ CkptWrite
    \/ PlotAndReturn
    \/ Interrupt
    \/ MainEnd

Spec == Init /\ [][Next]_vars

\* the training script is started again on the same save_dir after an interrupted
\* run: main builds a fresh SaliencyModel and SaliencyTrainer (lines 275-289) and
\* train loops over range(num_epochs) from 0; no file of save_dir is read
RestartAfterInterrupt ==
    /\ pc = "done_after_interrupt"
    /\ run < MaxRuns
    /\ run' = run + 1
    /\ pc' = "load_dataset"
    /\ train_size' = 0
    /\ val_size' = 0
    /\ epoch' = 0
    /\ weights' = 0
    /\ train_losses' = <<>>
    /\ val_losses' = <<>>
    /\ best_val_loss' = Inf
    /\ sched_best' = Inf
    /\ num_bad_epochs' = 0
    /\ lr_halvings' = 0
    /\ lr_cut' = {}
    /\ best_saved' = {}
    /\ UNCHANGED <<config, best_file, ckpt_files, entry, analysis, pipeline>>

NextRestart == Next \/ RestartAfterInterrupt

SpecRestart == Init /\ [][NextRestart]_vars

(***************************************************************************)
(* ComprehensiveAttentionAnalyzer and the analysis scripts                 *)
(***************************************************************************)
\* the training script is not running
TrainingIdle ==
    /\ image_dir_exists = FALSE
    /\ dataset_len = 0
    /\ train_split = DefaultSplitPct
    /\ num_epochs = 0
    /\ train_size = 0
    /\ val_size = 0
    /\ epoch = 0
    /\ TrainerInit
    /\ best_file = NoFile
    /\ ckpt_files = <<>>
    /\ best_saved = {}
    /\ run = 1

\* kinds of directory entry: a readable image, a file with an image extension that
\* Image.open cannot read, a file with another extension
EntryKinds == {"ok", "unreadable", "other"}

RECURSIVE SeqsUpTo(_, _)
SeqsUpTo(S, n) ==
    IF n = 0 THEN {<<>>}
    ELSE LET shorter == SeqsUpTo(S, n - 1)
         IN shorter \cup {Append(q, x) : q \in shorter, x \in S}

InitAnalyze ==
    /\ entry \in {"single", "batch"}
    /\ pc = IF entry = "single" THEN "s_start" ELSE "b_start"
    /\ TrainingIdle
    /\ model_file \in {"absent", "valid", "corrupt"}
    /\ IF entry = "single"
       THEN /\ image \in {"missing", "ok", "unreadable"}
            /\ input_dir_exists = FALSE
            /\ listing = <<>>
       ELSE /\ image = "missing"
            /\ input_dir_exists \in BOOLEAN
            /\ listing \in SeqsUpTo(EntryKinds, MaxFiles)
    /\ image_files = <<>>
    /\ analyzer = "none"
    /\ item = 0
    /\ result = None
    /\ results = <<>>
    /\ reports = {}
    /\ attempts = <<>>
    /\ ret = None
    /\ PipelineIdle

\* ComprehensiveAttentionAnalyzer.__init__, lines 97-104: self.model is the loaded
\* model if the file exists, None otherwise
SaliencySource(file) == IF file = "absent" THEN "heuristic" ELSE "model"

\* analyze_design.py, lines 40-43
SingleRefuses(file) == file = "absent"

\* ComprehensiveAttentionAnalyzer.analyze_design, lines 117-162, on a readable image:
\* the report names the saliency source that produced the map
Report(source, what) == [kind |-> "report", source |-> source, image |-> what]

\* batch_analyze.py, lines 79-86
Summary(k, res) == [filename |-> k, report |-> res]

\* a handler that leaves the loop
OnItemExceptionBreak == "b_summary"

\* batch_analyze.py, lines 92-94: except Exception ... continue
OnItemException == "b_loop"

\* batch_analyze.py, lines 42-44: the entries with an image extension, in order
RECURSIVE ImageFiles(_, _)
ImageFiles(l, k) ==
    IF k > Len(l) THEN <<>>
    ELSE IF l[k] # "other" THEN <<k>> \o ImageFiles(l, k + 1)
    ELSE ImageFiles(l, k + 1)

untouched == <<entry, training, pipeline>>

\* analyze_design.py, lines 23-43
SingleStart ==
    /\ pc = "s_start"
    /\ IF image = "missing"
       THEN pc' = "s_no_image"
       ELSE IF SingleRefuses(model_file)
            THEN pc' = "s_refused"
            ELSE pc' = "s_construct"
    /\ UNCHANGED <<untouched, analysis>>

\* analyze_design.py, line 45; torch.load of a truncated file raises, outside the try
SingleConstruct ==
    /\ pc = "s_construct"
    /\ IF model_file = "corrupt"
       THEN /\ pc' = "crashed_load"
            /\ UNCHANGED analyzer
       ELSE /\ analyzer' = SaliencySource(model_file)
            /\ pc' = "s_analyze"
    /\ UNCHANGED <<untouched, model_file, input_dir_exists, image, listing, image_files,
                   item, result, results, reports, attempts, ret>>

\* analyze_design.py, lines 56-57 and 171-175
SingleAnalyze ==
    /\ pc = "s_analyze"
    /\ attempts' = Append(attempts, 0)
    /\ IF image = "ok"
       THEN /\ result' = Report(analyzer, 0)
            /\ pc' = "s_write"
       ELSE /\ pc' = "s_failed"
            /\ UNCHANGED result
    /\ UNCHANGED <<untouched, model_file, input_dir_exists, image, listing, image_files,
                   analyzer, item, results, reports, ret>>

\* analyze_design.py, lines 58-169: the results are printed, the JSON report is
\* written and result is returned; an exception on the way returns None (171-175)
SingleWrite ==
    /\ pc = "s_write"
    /\ \/ /\ reports' = reports \cup {0}
          /\ ret' = result
          /\ pc' = "s_done"
       \/ /\ pc' = "s_failed"
          /\ UNCHANGED <<reports, ret>>
    /\ UNCHANGED <<untouched, model_file, input_dir_exists, image, listing, image_files,
                   analyzer, item, result, results, attempts>>

\* batch_analyze.py, lines 24-49
BatchStart ==
    /\ pc = "b_start"
    /\ IF ~input_dir_exists
       THEN /\ pc' = "b_no_dir"
            /\ UNCHANGED image_files
       ELSE /\ image_files' = ImageFiles(listing, 1)
            /\ pc' = IF ImageFiles(listing, 1) = <<>> THEN "b_no_images"
                     ELSE "b_construct"
    /\ UNCHANGED <<untouched, model_file, input_dir_exists, image, listing, analyzer,
                   item, result, results, reports, attempts, ret>>

\* batch_analyze.py, lines 54-62
BatchConstruct ==
    /\ pc = "b_construct"
    /\ IF model_file = "corrupt"
       THEN /\ pc' = "crashed_load"
            /\ UNCHANGED analyzer
       ELSE /\ analyzer' = SaliencySource(model_file)
            /\ pc' = "b_loop"
    /\ UNCHANGED <<untouched, model_file, input_dir_exists, image, listing, image_files,
                   item, result, results, reports, attempts, ret>>

\* batch_analyze.py, lines 63-66: the for loop takes the next item, or ends
BatchLoop ==
    /\ pc = "b_loop"
    /\ IF item < Len(image_files)
       THEN /\ item' = item + 1
            /\ pc' = "b_analyze"
       ELSE /\ pc' = "b_summary"
            /\ UNCHANGED item
    /\ UNCHANGED <<untouched, model_file, input_dir_exists, image, listing, image_files,
                   analyzer, result, results, reports, attempts, ret>>

\* batch_analyze.py, lines 68-69
BatchAnalyze ==
    /\ pc = "b_analyze"
    /\ attempts' = Append(attempts, image_files[item])
    /\ IF listing[image_files[item]] = "ok"
       THEN /\ result' = Report(analyzer, image_files[item])
            /\ pc' = "b_write"
       ELSE /\ pc' = OnItemException
            /\ UNCHANGED result
    /\ UNCHANGED <<untouched, model_file, input_dir_exists, image, listing, image_files,
                   analyzer, item, results, reports, ret>>

\* batch_analyze.py, lines 72-76: the item's report is written, or writing it raises
BatchWrite ==
    /\ pc = "b_write"
    /\ \/ /\ reports' = reports \cup {image_files[item]}
          /\ pc' = "b_store"
       \/ /\ pc' = OnItemException
          /\ UNCHANGED reports
    /\ UNCHANGED <<untouched, model_file, input_dir_exists, image, listing, image_files,
                   analyzer, item, result, results, attempts, ret>>

\* batch_analyze.py, lines 79-90
BatchStore ==
    /\ pc = "b_store"
    /\ results' = Append(results, Summary(image_files[item], result))
    /\ pc' = "b_loop"
    /\ UNCHANGED <<untouched, model_file, input_dir_exists, image, listing, image_files,
                   analyzer, item, result, reports, attempts, ret>>

\* batch_analyze.py, lines 96-139: the ranking is printed and, if there are results,
\* the comparison report is written
BatchSummary ==
    /\ pc = "b_summary"
    /\ reports' = IF results # <<>> THEN reports \cup {0} ELSE reports
    /\ pc' = "b_done"
    /\ UNCHANGED <<untouched, model_file, input_dir_exists, image, listing, image_files,
                   analyzer, item, result, results, attempts, ret>>

NextAnalyze ==
    \/ SingleStart
    \/ SingleConstruct
    \/ SingleAnalyze
    \/ SingleWrite
    \/ BatchStart
    \/ BatchConstruct
    \/ BatchLoop
    \/ BatchAnalyze
    \/ BatchWrite
    \/ BatchStore
    \/ BatchSummary

SpecAnalyze == InitAnalyze /\ [][NextAnalyze]_vars

\* a script runs to its end: it is a sequential program that nothing suspends
SpecAnalyzeFair == SpecAnalyze /\ WF_vars(NextAnalyze)

(***************************************************************************)
(* ComprehensiveAttentionAnalyzer._generate_saliency_heatmap               *)
(*                                                                         *)
(* A map is [height, width, px]; px gives every pixel <<y, x>> a value     *)
(* <<num, den>>, the number num / den.  All pixels of a map have the same  *)
(* den.  <<0, 0>> is the floating-point NaN that 0.0 / 0.0 produces.       *)
(***************************************************************************)
DistScale == 10        \* np.sqrt in fixed point: distances in tenths of a pixel
CenterWeight2 == 15    \* center_bias * 50 * 0.15, doubled
UnitOverEps == 1000    \* one unit of the blend over the 1e-8 of the normalisation

NaN == <<0, 0>>

Pixels(h, w) == (0..(h - 1)) \X (0..(w - 1))

ISqrt(n) == CHOOSE r \in 0..n : r * r <= n /\ (r + 1) * (r + 1) > n

\* lines 210-213: distance of a pixel from (center_y, center_x), and max_distance
Distance(y, x, cy, cx) ==
    ISqrt(((x - cx) * (x - cx) + (y - cy) * (y - cy)) * DistScale * DistScale)

MaxDistance(h, w) == Distance(0, 0, h \div 2, w \div 2)

\* lines 214 and 223-229: the blend of a pixel whose other terms add up to f;
\* center_bias = 1 - distance / max_distance is 0.0 / 0.0 when max_distance is 0
Blend(f, y, x, h, w) ==
    LET maxd == MaxDistance(h, w)
        dist == Distance(y, x, h \div 2, w \div 2)
    IN IF maxd = 0 THEN NaN
       ELSE <<2 * f * maxd + CenterWeight2 * (maxd - dist), 2 * maxd>>

SetMin(S) == CHOOSE m \in S : \A n \in S : m <= n
SetMax(S) == CHOOSE m \in S : \A n \in S : m >= n

\* line 232: (saliency - saliency.min()) / (saliency.max() - saliency.min() + 1e-8);
\* min and max of an array that holds a NaN are NaN
Normalize(px) ==
    LET den == (CHOOSE p \in DOMAIN px : TRUE) 
        common == px[den][2]
        nums == {px[p][1] : p \in DOMAIN px}
        lo == SetMin(nums)
        hi == SetMax(nums)
    IN IF common = 0 THEN [p \in DOMAIN px |-> NaN]
       ELSE [p \in DOMAIN px |->
                <<(px[p][1] - lo) * UnitOverEps, (hi - lo) * UnitOverEps + common>>]

\* _heuristic_saliency, lines 188-234, on an image whose pixels have the terms f
HeuristicMap(f, h, w) ==
    [height |-> h, width |-> w,
     px |-> Normalize([p \in Pixels(h, w) |-> Blend(f[p], p[1], p[2], h, w)])]

\* cv2.resize, INTER_LINEAR: the source column (or row) left of destination index d
\* and the weight of its right neighbour, over 2 * dsize
SourceCoord(d, ssize, dsize) ==
    LET fx == (2 * d + 1) * ssize - dsize
        sx == IF fx < 0 THEN 0 - 1 ELSE fx \div (2 * dsize)
    IN IF sx < 0 THEN <<0, 0>>
       ELSE IF sx >= ssize - 1 THEN <<ssize - 1, 0>>
       ELSE <<sx, fx - sx * 2 * dsize>>

\* cv2.resize(saliency_map, (width, height)): bilinear interpolation
Resize(m, h, w) ==
    LET Value(y, x) ==
            LET cy == SourceCoord(y, m.height, h)
                cx == SourceCoord(x, m.width, w)
                y0 == cy[1]
                x0 == cx[1]
                y1 == IF y0 + 1 < m.height THEN y0 + 1 ELSE y0
                x1 == IF x0 + 1 < m.width THEN x0 + 1 ELSE x0
                fy == cy[2]
                fx == cx[2]
                den == m.px[<<y0, x0>>][2]
            IN IF den = 0 THEN NaN
               ELSE <<  m.px[<<y0, x0>>][1] * (2 * h - fy) * (2 * w - fx)
                      + m.px[<<y0, x1>>][1] * (2 * h - fy) * fx
                      + m.px[<<y1, x0>>][1] * fy * (2 * w - fx)
                      + m.px[<<y1, x1>>][1] * fy * fx,
                      den * 2 * h * 2 * w>>
    IN [height |-> h, width |-> w, px |-> [p \in Pixels(h, w) |-> Value(p[1], p[2])]]

\* a call of _generate_saliency_heatmap(image) on an analyzer with or without model
InitHeatmap ==
    /\ entry = "heatmap"
    /\ pc = "g_start"
    /\ TrainingIdle
    /\ AnalysisIdle
    /\ StagesIdle
    /\ has_model \in BOOLEAN
    /\ img_height \in 1..MaxSide
    /\ img_width \in 1..MaxSide
    /\ saliency_map = None
    /\ ForwardIdle
    /\ ScoringIdle
    /\ LoadIdle
    /\ ElementsIdle

outside_heatmap == <<entry, training, analysis, forward, scoring, load, elements, stages>>

\* lines 168-175: the model's sigmoid output on the 256 x 256 tensor
ModelInference ==
    /\ pc = "g_start"
    /\ has_model
    /\ \E out \in [Pixels(ModelSide, ModelSide) -> 0..MaxLevel] :
          saliency_map' = [height |-> ModelSide, width |-> ModelSide,
                           px |-> [p \in Pixels(ModelSide, ModelSide) |->
                                      <<out[p], MaxLevel>>]]
    /\ pc' = "g_resize"
    /\ UNCHANGED <<outside_heatmap, has_model, img_height, img_width>>

\* lines 176-178: saliency_map = self._heuristic_saliency(np.array(image))
HeuristicSaliency ==
    /\ pc = "g_start"
    /\ ~has_model
    /\ \E f \in [Pixels(img_height, img_width) -> 0..MaxFeature] :
          saliency_map' = HeuristicMap(f, img_height, img_width)
    /\ pc' = "g_resize"
    /\ UNCHANGED <<outside_heatmap, has_model, img_height, img_width>>

\* lines 180-186: resize to the image size; the overlay changes nothing
ResizeToImage ==
    /\ pc = "g_resize"
    /\ saliency_map' = Resize(saliency_map, img_height, img_width)
    /\ pc' = "g_done"
    /\ UNCHANGED <<outside_heatmap, has_model, img_height, img_width>>

NextHeatmap ==
    \/ ModelInference
    \/ HeuristicSaliency
    \/ ResizeToImage

SpecHeatmap == InitHeatmap /\ [][NextHeatmap]_vars

(***************************************************************************)
(* SaliencyModel.forward on a batch of 3-channel images of height and      *)
(* width x_shape.  A spatial size is <<height, width>>.                    *)
(***************************************************************************)
\* nn.MaxPool2d(2, 2): floor(n / 2) per dimension
Pooled(size) == <<size[1] \div 2, size[2] \div 2>>

\* max pooling raises "Output size is too small" when a dimension would be 0
PoolFails(size) == Pooled(size)[1] = 0 \/ Pooled(size)[2] = 0

\* nn.ConvTranspose2d(c, c / 2, 2, stride=2): (n - 1) * 2 + 2 per dimension
Upsampled(size) == <<2 * size[1], 2 * size[2]>>

\* a concatenation that crops the larger operand instead of raising
ConcatCrops(a, b) == TRUE

\* torch.cat([a, b], dim=1): the sizes must agree in every other dimension
ConcatMatches(a, b) == a = b

ForwardError(where) == [kind |-> "error", at |-> where]

\* lines 64-70: the encoder (a conv block keeps the spatial size) and the bottleneck
Encoded(size) ==
    IF PoolFails(size) THEN ForwardError("pool1")
    ELSE IF PoolFails(Pooled(size)) THEN ForwardError("pool2")
    ELSE IF PoolFails(Pooled(Pooled(size))) THEN ForwardError("pool3")
    ELSE [kind |-> "encoded",
          enc1 |-> size,
          enc2 |-> Pooled(size),
          enc3 |-> Pooled(Pooled(size)),
          bottleneck |-> Pooled(Pooled(Pooled(size)))]

\* lines 72-85: the decoder with its three skip connections, the 1 x 1 convolution
\* to one channel and the sigmoid
Decoded(e) ==
    LET dec3 == Upsampled(e.bottleneck)
        dec2 == Upsampled(dec3)
        dec1 == Upsampled(dec2)
    IN IF ~ConcatMatches(dec3, e.enc3) THEN ForwardError("cat3")
       ELSE IF ~ConcatMatches(dec2, e.enc2) THEN ForwardError("cat2")
       ELSE IF ~ConcatMatches(dec1, e.enc1) THEN ForwardError("cat1")
       ELSE [kind |-> "tensor", channels |-> 1, size |-> dec1]

InitForward ==
    /\ entry = "forward"
    /\ pc = "f_start"
    /\ TrainingIdle
    /\ AnalysisIdle
    /\ StagesIdle
    /\ HeatmapIdle
    /\ x_shape \in (1..MaxDim) \X (1..MaxDim)
    /\ forward_out = None
    /\ ScoringIdle
    /\ LoadIdle
    /\ ElementsIdle

outside_forward == <<entry, training, analysis, heatmap, scoring, load, elements, stages>>

Encode ==
    /\ pc = "f_start"
    /\ forward_out' = Encoded(x_shape)
    /\ pc' = IF Encoded(x_shape).kind = "error" THEN "f_raised" ELSE "f_decode"
    /\ UNCHANGED <<outside_forward, x_shape>>

Decode ==
    /\ pc = "f_decode"
    /\ forward_out' = Decoded(forward_out)
    /\ pc' = IF Decoded(forward_out).kind = "error" THEN "f_raised" ELSE "f_returned"
    /\ UNCHANGED <<outside_forward, x_shape>>

NextForward ==
    \/ Encode
    \/ Decode

SpecForward == InitForward /\ [][NextForward]_vars

(***************************************************************************)
(* ComprehensiveAttentionAnalyzer._calculate_score                         *)
(*                                                                         *)
(* cognitive_load["cognitive_load_score"] is a number of hundredths (it is *)
(* rounded to 2 decimals); the composite score is a number of thousandths. *)
(***************************************************************************)
BaseScore == 100000      \* base_score = 100, in thousandths
LoadWeight == 3          \* cl_score * 0.3: thousandths per hundredth of cl_score
FullLoad == 10000        \* min(100, cognitive_load), in hundredths

\* issue.get("severity", ...) of an issue that has no severity
Missing == "(missing)"

\* the severities that the analyzer's issues carry or that _calculate_score names
Severities == {"critical", "high", "medium", "low"}

\* the issues of the model: [severity |-> s], s a severity or Missing
Issues == {[severity |-> s] : s \in Severities \cup {Missing}}

\* the lists of at most n members of S
ListsUpTo(S, n) == UNION {[1..k -> S] : k \in 0..n}

\* cognitive-load scores explored
LoadScores == {(FullLoad * k) \div MaxLoadSteps : k \in 0..MaxLoadSteps}

\* a lookup that has no default
GetSeverityNoDefault(issue) == issue.severity

\* line 629: issue.get("severity", "low")
GetSeverity(issue) == IF issue.severity = Missing THEN "low" ELSE issue.severity

\* lines 630-637, in thousandths
SeverityPenalty(severity) ==
    CASE severity = "critical" -> 10000
      [] severity = "high" -> 7000
      [] severity = "medium" -> 4000
      [] severity = "low" -> 2000
      [] OTHER -> 0

\* lines 628-637: the loop over issues, from its k-th issue on
RECURSIVE DeductIssues(_, _, _)
DeductIssues(base, iss, k) ==
    IF k > Len(iss) THEN base
    ELSE DeductIssues(base - SeverityPenalty(GetSeverity(iss[k])), iss, k + 1)

\* a clamp that has no lower bound
ClampAbove(x) == IF x > BaseScore THEN BaseScore ELSE x

\* line 639: max(0, min(100, base_score))
Clamp(x) ==
    LET upper == IF x > BaseScore THEN BaseScore ELSE x
    IN IF upper < 0 THEN 0 ELSE upper

\* _calculate_score, lines 618-639
CalculatedScore(iss, cl) == Clamp(DeductIssues(BaseScore - LoadWeight * cl, iss, 1))

InitScore ==
    /\ entry = "score"
    /\ pc = "c_start"
    /\ TrainingIdle
    /\ AnalysisIdle
    /\ StagesIdle
    /\ HeatmapIdle
    /\ ForwardIdle
    /\ issues \in ListsUpTo(Issues, MaxIssues)
    /\ cl_score \in LoadScores
    /\ score = None
    /\ LoadIdle
    /\ ElementsIdle

outside_scoring == <<entry, training, analysis, heatmap, forward, load, elements, stages>>

CalculateScore ==
    /\ pc = "c_start"
    /\ score' = CalculatedScore(issues, cl_score)
    /\ pc' = "c_returned"
    /\ UNCHANGED <<outside_scoring, issues, cl_score>>

NextScore == CalculateScore

SpecScore == InitScore /\ [][NextScore]_vars

(***************************************************************************)
(* ComprehensiveAttentionAnalyzer._estimate_cognitive_load                 *)
(*                                                                         *)
(* visual_density is a number of thousandths, attention_entropy a number   *)
(* of thousandths of a bit; a sub-score and the cognitive-load score are   *)
(* numbers of 1 / ScoreDen, which makes every product below exact.         *)
(***************************************************************************)
ScoreDen == 3000
ElementCeiling == 50        \* (element_count / 50) * 100
ColorCeiling == 10          \* (colors / 10) * 100
OPTIMAL_DENSITY == 300      \* self.OPTIMAL_DENSITY = 0.3, in thousandths
EntropyCeiling == 6000      \* (entropy / 6) * 100, in thousandths of a bit
MAX_COLORS == 5             \* self.MAX_COLORS
MaxElementCount == 50       \* if element_count > 50
MaxEntropy == 4500          \* if attention_entropy > 4.5, in thousandths of a bit

Full == 100 * ScoreDen

Min(a, b) == IF a < b THEN a ELSE b

\* inputs explored
ElementCounts == {ElementStep * k : k \in 0..MaxElementSteps}
ColorCounts == {ColorStep * k : k \in 0..MaxColorSteps}
Densities == {Min(1000, DensityStep * k) : k \in 0..MaxDensitySteps}
Entropies == {0} \cup {EntropyStep * k - j : k \in 1..MaxEntropySteps, j \in 0..1}

\* line 578: min(100, (element_count / 50) * 100)
ElementScore(count) == Min(Full, (count * 100 * ScoreDen) \div ElementCeiling)

\* line 579: min(100, (colors / 10) * 100)
ColorScore(n) == Min(Full, (n * 100 * ScoreDen) \div ColorCeiling)

\* a sub-score that measures the distance from the optimal density
DensityScoreAroundOptimum(d) ==
    ((IF d < OPTIMAL_DENSITY THEN OPTIMAL_DENSITY - d ELSE d - OPTIMAL_DENSITY)
        * 100 * ScoreDen) \div OPTIMAL_DENSITY

\* line 580: (density / self.OPTIMAL_DENSITY) * 100
DensityScore(d) == (d * 100 * ScoreDen) \div OPTIMAL_DENSITY

\* line 581: min(100, (entropy / 6) * 100)
EntropyScore(e) == Min(Full, (e * 100 * ScoreDen) \div EntropyCeiling)

\* lines 584-589: the weights 0.3, 0.2, 0.3, 0.2
Weighted(es, cs, ds, hs) == (3 * es + 2 * cs + 3 * ds + 2 * hs) \div 10

\* _calculate_cognitive_load_score, lines 574-591
CognitiveLoadScore(count, n, d, e) ==
    Min(Full, Weighted(ElementScore(count), ColorScore(n), DensityScore(d),
                       EntropyScore(e)))

\* round(x, 2) of a number of 1 / ScoreDen: the nearest number of hundredths, a tie
\* going to the even one
Round2(x) ==
    LET unit == ScoreDen \div 100
        q == x \div unit
        r == x % unit
    IN IF 2 * r < unit THEN q
       ELSE IF 2 * r > unit THEN q + 1
       ELSE IF q % 2 = 0 THEN q ELSE q + 1

\* _get_cognitive_load_level, lines 593-602
CognitiveLoadLevel(x) ==
    IF x < 30 * ScoreDen THEN "Low - Easy to process"
    ELSE IF x < 50 * ScoreDen THEN "Moderate - Manageable complexity"
    ELSE IF x < 70 * ScoreDen THEN "High - May overwhelm some users"
    ELSE "Very High - Likely to cause cognitive overload"

LoadIssue(id, severity, type) == [id |-> id, severity |-> severity, type |-> type]

\* a check that fires at its threshold
Reaches(value, threshold) == value >= threshold

\* lines 470, 486, 502 and 518: if <metric> > <threshold>
Exceeds(value, threshold) == value > threshold

\* lines 467-530: the four checks, in order
LoadIssues(count, n, d, e) ==
       (IF Exceeds(count, MaxElementCount)
        THEN <<LoadIssue("cognitive_too_many_elements", "high", "Too Many Elements")>>
        ELSE <<>>)
    \o (IF Exceeds(n, MAX_COLORS)
        THEN <<LoadIssue("cognitive_too_many_colors", "medium",
                         "Excessive Color Palette")>>
        ELSE <<>>)
    \o (IF Exceeds(d, OPTIMAL_DENSITY)
        THEN <<LoadIssue("cognitive_high_density", "medium",
                         "High Information Density")>>
        ELSE <<>>)
    \o (IF Exceeds(e, MaxEntropy)
        THEN <<LoadIssue("cognitive_fragmented_attention", "medium",
                         "Fragmented Attention")>>
        ELSE <<>>)

\* lines 532-543: the record returned; cognitive_load_score in hundredths
LoadRecord(count, n, d, e) ==
    [cognitive_load_score |-> Round2(CognitiveLoadScore(count, n, d, e)),
     level |-> CognitiveLoadLevel(CognitiveLoadScore(count, n, d, e)),
     metrics |-> [element_count |-> count, dominant_colors |-> n],
     issues |-> LoadIssues(count, n, d, e)]

InitLoad ==
    /\ entry = "load"
    /\ pc = "l_start"
    /\ TrainingIdle
    /\ AnalysisIdle
    /\ StagesIdle
    /\ HeatmapIdle
    /\ ForwardIdle
    /\ ScoringIdle
    /\ element_count \in ElementCounts
    /\ colors \in ColorCounts
    /\ density \in Densities
    /\ entropy \in Entropies
    /\ cognitive_load = None
    /\ ElementsIdle

outside_load == <<entry, training, analysis, heatmap, forward, scoring, elements, stages>>

EstimateCognitiveLoad ==
    /\ pc = "l_start"
    /\ cognitive_load' = LoadRecord(element_count, colors, density, entropy)
    /\ pc' = "l_returned"
    /\ UNCHANGED <<outside_load, element_count, colors, density, entropy>>

NextLoad == EstimateCognitiveLoad

SpecLoad == InitLoad /\ [][NextLoad]_vars

(***************************************************************************)
(* ComprehensiveAttentionAnalyzer._identify_critical_elements and          *)
(* _verify_attention_priority                                              *)
(*                                                                         *)
(* A contour is its bounding rectangle [x, y, w, h] with avg, the mean of  *)
(* the saliency map inside the rectangle, in ten-thousandths.  An          *)
(* attention_score is a number of thousandths (it is rounded to 3          *)
(* decimals).                                                              *)
(***************************************************************************)
MaxExamined == 30         \* contours[:30]
MaxReported == 10         \* critical_elements[:10]
MinArea == 1000           \* if 1000 < area < 50000
MaxArea == 50000
LargeArea == 10000        \* is_large = area > 10000
LowAttention == 500       \* attention < 0.5, in thousandths
HighAttention == 800      \* attention > 0.8, in thousandths

\* image sizes <<height, width>> explored
ImageSizes == {<<600, 800>>, <<300, 400>>}

\* bounding rectangles explored: around the top band, the centre band and the
\* area thresholds of a 600 x 800 image
Xs == {0, 200, 360, 600}
Ys == {50, 179, 180, 400}
Ws == {80, 200, 250}
Hs == {5, 10, 50, 51, 250}

\* mean saliencies explored, in ten-thousandths
Attentions == {3000, 4994, 4996, 5000, 8000, 8004, 8006, 9000}

Contours == [x : Xs, y : Ys, w : Ws, h : Hs, avg : Attentions]

\* the contours of the lists explored: a rectangle that the area filter drops, a
\* rectangle of the top band and a small off-centre rectangle below it
ListContours ==
    {c \in Contours : /\ c.x = 0
                      /\ c.w = 80
                      /\ <<c.y, c.h>> \in {<<400, 10>>, <<50, 50>>, <<400, 50>>}
                      /\ c.avg \in {3000, 4996, 8004, 9000}}

\* r copies of c
Copies(c, r) == [k \in 1..r |-> c]

RECURSIVE Expanded(_)
Expanded(segments) ==
    IF segments = <<>> THEN <<>>
    ELSE Copies(segments[1][1], segments[1][2]) \o Expanded(Tail(segments))

\* round(x, 3) of a number of ten-thousandths: the nearest number of thousandths,
\* a tie going to the even one
Round3(x) ==
    LET q == x \div 10
        r == x % 10
    IN IF r < 5 THEN q
       ELSE IF r > 5 THEN q + 1
       ELSE IF q % 2 = 0 THEN q ELSE q + 1

Abs(n) == IF n < 0 THEN 0 - n ELSE n

\* a top band that includes its lower edge
IsTopInclusive(y, height) == 10 * y <= 3 * height

\* line 275: is_top = y < image_array.shape[0] * 0.3
IsTop(y, height) == 10 * y < 3 * height

\* line 276: is_large = area > 10000
IsLarge(area) == area > LargeArea

\* line 277: abs((x + w/2) - image_array.shape[1]/2) < image_array.shape[1] * 0.2
IsCentered(x, w, width) == 5 * Abs(2 * x + w - width) < 2 * width

\* line 279
Importance(c, height, width) ==
    IF IsTop(c.y, height) \/ IsLarge(c.w * c.h) \/ IsCentered(c.x, c.w, width)
    THEN "high" ELSE "medium"

\* _classify_element_type, lines 296-309; aspect_ratio = width / height
ElementType(w, h, is_top) ==
    IF is_top /\ w > h * 3 THEN "Header/Navigation"
    ELSE IF h > 0 /\ 2 * h < w /\ w < 5 * h /\ h < 60 THEN "Button/CTA"
    ELSE IF (IF h > 0 THEN 2 * w < 3 * h ELSE TRUE) /\ w < 100 THEN "Icon"
    ELSE IF h > 0 /\ w > 3 * h THEN "Text Block"
    ELSE "UI Element"

\* a filter that keeps a rectangle of any area
PassesAnyArea(c) == c.w * c.h >= 0

\* line 268: if 1000 < area < 50000
PassesAreaFilter(c) == MinArea < c.w * c.h /\ c.w * c.h < MaxArea

\* lines 281-289: the record of the contour of index i (from 0)
Element(c, i, height, width) ==
    [id |-> i,
     type |-> ElementType(c.w, c.h, IsTop(c.y, height)),
     location |-> [x |-> c.x, y |-> c.y, width |-> c.w, height |-> c.h],
     importance |-> Importance(c, height, width),
     attention_score |-> Round3(c.avg),
     area |-> c.w * c.h]

\* line 263: contours[:30]
Examined(cs) == Min(MaxExamined, Len(cs))

\* lines 263-289: the elements of the contours k .. n, in order
RECURSIVE Collected(_, _, _, _, _)
Collected(cs, k, n, height, width) ==
    IF k > n THEN <<>>
    ELSE (IF PassesAreaFilter(cs[k])
          THEN <<Element(cs[k], k - 1, height, width)>>
          ELSE <<>>) \o Collected(cs, k + 1, n, height, width)

\* line 292: the key (e["importance"] == "high", e["attention_score"]); a comes
\* before b in the reverse order iff its key is greater
KeyGreater(a, b) ==
    \/ a.importance = "high" /\ b.importance # "high"
    \/ /\ (a.importance = "high") = (b.importance = "high")
       /\ a.attention_score > b.attention_score

\* list.sort(key=..., reverse=True) is stable: e goes behind every member whose key
\* is not smaller
RECURSIVE Inserted(_, _)
Inserted(sorted, e) ==
    IF sorted = <<>> THEN <<e>>
    ELSE IF KeyGreater(e, sorted[1]) THEN <<e>> \o sorted
    ELSE <<sorted[1]>> \o Inserted(Tail(sorted), e)

RECURSIVE Sorted(_, _)
Sorted(es, k) ==
    IF k = 0 THEN <<>> ELSE Inserted(Sorted(es, k - 1), es[k])

\* _identify_critical_elements, lines 252-294
CriticalElements(cs, height, width) ==
    LET found == Collected(cs, 1, Examined(cs), height, width)
        ranked == Sorted(found, Len(found))
    IN SubSeq(ranked, 1, Min(MaxReported, Len(ranked)))

PriorityIssue(id, severity, e) ==
    [id |-> id, severity |-> severity, element |-> e]

\* _verify_attention_priority, lines 311-357, from the k-th element on
RECURSIVE PriorityIssues(_, _)
PriorityIssues(es, k) ==
    IF k > Len(es) THEN <<>>
    ELSE (IF es[k].importance = "high" /\ es[k].attention_score < LowAttention
          THEN <<PriorityIssue("attention_priority", "high", es[k])>>
          ELSE IF es[k].importance = "medium" /\ es[k].attention_score > HighAttention
          THEN <<PriorityIssue("attention_overemphasis", "low", es[k])>>
          ELSE <<>>) \o PriorityIssues(es, k + 1)

\* analyze_design, lines 128-129, on an image with one contour
InitRegion ==
    /\ entry = "region"
    /\ pc = "e_start"
    /\ TrainingIdle
    /\ AnalysisIdle
    /\ StagesIdle
    /\ has_model = FALSE
    /\ \E size \in ImageSizes :
          /\ img_height = size[1]
          /\ img_width = size[2]
    /\ saliency_map = None
    /\ ForwardIdle
    /\ ScoringIdle
    /\ LoadIdle
    /\ \E c \in Contours : contours = <<c>>
    /\ critical_elements = <<>>
    /\ priority_issues = <<>>

\* analyze_design, lines 128-129, on a 600 x 800 image with runs of equal contours
InitElements ==
    /\ entry = "elements"
    /\ pc = "e_start"
    /\ TrainingIdle
    /\ AnalysisIdle
    /\ StagesIdle
    /\ has_model = FALSE
    /\ img_height = 600
    /\ img_width = 800
    /\ saliency_map = None
    /\ ForwardIdle
    /\ ScoringIdle
    /\ LoadIdle
    /\ \E segments \in ListsUpTo(ListContours \X {1, MaxReported, MaxExamined},
                                 MaxSegments) :
          contours = Expanded(segments)
    /\ critical_elements = <<>>
    /\ priority_issues = <<>>

outside_elements == <<entry, training, analysis, heatmap, forward, scoring, load, stages>>

IdentifyCriticalElements ==
    /\ pc = "e_start"
    /\ critical_elements' = CriticalElements(contours, img_height, img_width)
    /\ pc' = "e_verify"
    /\ UNCHANGED <<outside_elements, contours, priority_issues>>

VerifyAttentionPriority ==
    /\ pc = "e_verify"
    /\ priority_issues' = PriorityIssues(critical_elements, 1)
    /\ pc' = "e_returned"
    /\ UNCHANGED <<outside_elements, contours, critical_elements>>

NextElements ==
    \/ IdentifyCriticalElements
    \/ VerifyAttentionPriority

SpecRegion == InitRegion /\ [][NextElements]_vars

SpecElements == InitElements /\ [][NextElements]_vars

(***************************************************************************)
(* ComprehensiveAttentionAnalyzer._assess_visual_hierarchy and             *)
(* _calculate_entropy                                                      *)
(*                                                                         *)
(* A value of the map is the pair <<k, MapLevels>>, a mean the pair        *)
(* <<sum, count * MapLevels>>, and NaN what numpy gives for 0.0 / 0.0 and  *)
(* for the mean of an empty slice (a RuntimeWarning, no exception).        *)
(***************************************************************************)
\* the indices of a[first:last]
Slice(first, last) == first..(last - 1)

\* [:n//3], [n//3:2*n//3] and [2*n//3:] of an axis of length n
FirstThird(n) == Slice(0, n \div 3)
SecondThird(n) == Slice(n \div 3, (2 * n) \div 3)
LastThird(n) == Slice((2 * n) \div 3, n)

RECURSIVE Total(_, _)
Total(px, region) ==
    IF region = {} THEN 0
    ELSE LET p == CHOOSE q \in region : TRUE
         IN px[p][1] + Total(px, region \ {p})

\* saliency_map[rows, cols].mean()
Mean(m, rows, cols) ==
    IF rows \X cols = {} \/ \E p \in rows \X cols : m.px[p] = NaN THEN NaN
    ELSE <<Total(m.px, rows \X cols), Cardinality(rows \X cols) * MapLevels>>

\* a < b of two floats: False when either is NaN
Less(a, b) == a # NaN /\ b # NaN /\ a[1] * b[2] < b[1] * a[2]

\* a * 1.5
Times15(a) == IF a = NaN THEN NaN ELSE <<3 * a[1], 2 * a[2]>>

\* (a + b) / 2
HalfSum(a, b) ==
    IF a = NaN \/ b = NaN THEN NaN
    ELSE <<a[1] * b[2] + b[1] * a[2], 2 * a[2] * b[2]>>

\* np.var([t, m, b]) = (3 * (t^2 + m^2 + b^2) - (t + m + b)^2) / 9
Variance(t, m, b) ==
    IF t = NaN \/ m = NaN \/ b = NaN THEN NaN
    ELSE LET xt == t[1] * m[2] * b[2]
             xm == m[1] * t[2] * b[2]
             xb == b[1] * t[2] * m[2]
             d == t[2] * m[2] * b[2]
         IN <<3 * (xt * xt + xm * xm + xb * xb) - (xt + xm + xb) * (xt + xm + xb),
              9 * d * d>>

\* round(float(a), digits): the nearest q / scale, a tie going to the even q;
\* round(nan) is nan
Rounded(a, scale) ==
    IF a = NaN THEN NaN
    ELSE LET q == (a[1] * scale) \div a[2]
             r == (a[1] * scale) % a[2]
         IN IF 2 * r < a[2] THEN <<q, scale>>
            ELSE IF 2 * r > a[2] THEN <<q + 1, scale>>
            ELSE IF q % 2 = 0 THEN <<q, scale>> ELSE <<q + 1, scale>>

\* an inversion reported when the two bands are level
IsInvertedOrLevel(top, bottom) == top # NaN /\ bottom # NaN /\ ~Less(bottom, top)

\* line 377: if top_third_attention < bottom_attention
IsInverted(top, bottom) == Less(top, bottom)

\* the right band compared with the left band itself
IsRightHeavier(left, right) == Less(left, right)

\* line 393: if right_attention > left_attention * 1.5
IsRightHeavy(left, right) == Less(Times15(left), right)

\* line 409: if attention_variance < 0.01
IsFlat(variance) == Less(variance, <<1, 100>>)

HierarchyIssue(id, severity, type) == [id |-> id, severity |-> severity, type |-> type]

\* lines 374-422: the three checks, in order
HierarchyIssues(top, bottom, left, right, variance) ==
       (IF IsInverted(top, bottom)
        THEN <<HierarchyIssue("hierarchy_inverted", "medium",
                              "Inverted Visual Hierarchy")>>
        ELSE <<>>)
    \o (IF IsRightHeavy(left, right)
        THEN <<HierarchyIssue("hierarchy_right_heavy", "low", "Right-Heavy Layout")>>
        ELSE <<>>)
    \o (IF IsFlat(variance)
        THEN <<HierarchyIssue("hierarchy_flat", "medium", "Flat Visual Hierarchy")>>
        ELSE <<>>)

\* _assess_visual_hierarchy, lines 359-436, on an image of height x width pixels
\* and its map m
HierarchyRecord(m, height, width) ==
    LET rows == 0..(height - 1)
        cols == 0..(width - 1)
        top == Mean(m, FirstThird(height), cols)
        middle == Mean(m, SecondThird(height), cols)
        bottom == Mean(m, LastThird(height), cols)
        left == Mean(m, rows, FirstThird(width))
        center == Mean(m, rows, SecondThird(width))
        right == Mean(m, rows, LastThird(width))
        variance == Variance(top, middle, bottom)
    IN [attention_distribution |->
            [top |-> Rounded(top, 1000), middle |-> Rounded(middle, 1000),
             bottom |-> Rounded(bottom, 1000), left |-> Rounded(left, 1000),
             center |-> Rounded(center, 1000), right |-> Rounded(right, 1000)],
        f_pattern_compliance |-> Rounded(HalfSum(top, left), 1000),
        hierarchy_clarity |-> Rounded(variance, 10000),
        issues |-> HierarchyIssues(top, bottom, left, right, variance)]

\* log2(n) in thousandths of a bit
Log2Milli(n) ==
    <<0, 1000, 1585, 2000, 2322, 2585, 2807, 3000, 3170, 3322, 3459, 3585, 3700,
      3807, 3907, 4000, 4087, 4170, 4248, 4322>>[n]

\* line 567: np.histogram(..., bins=256, range=(0, 1)) counts the values of [0, 1];
\* the value k / MapLevels falls in a bin of its own
Histogram(m) ==
    [k \in 0..MapLevels |-> Cardinality({p \in DOMAIN m.px : m.px[p] = <<k, MapLevels>>})]

RECURSIVE HistSum(_, _)
HistSum(hist, k) == IF k < 0 THEN 0 ELSE hist[k] + HistSum(hist, k - 1)

\* sum of c * log2(c) over the bins up to k
RECURSIVE CountLogs(_, _)
CountLogs(hist, k) ==
    IF k < 0 THEN 0
    ELSE (IF hist[k] = 0 THEN 0 ELSE hist[k] * Log2Milli(hist[k]))
         + CountLogs(hist, k - 1)

\* _calculate_entropy, lines 564-572: hist / hist.sum() is 0 / 0 for every bin when
\* no value was counted, and the sum of NaN is NaN; otherwise
\* -sum(p * log2(p)) = log2(n) - sum(c * log2(c)) / n, in thousandths of a bit
CalculatedEntropy(m) ==
    LET hist == Histogram(m)
        n == HistSum(hist, MapLevels)
    IN IF n = 0 THEN NaN
       ELSE <<Log2Milli(n) - CountLogs(hist, MapLevels) \div n, 1000>>

\* the map of NaN that _heuristic_saliency returns when max_distance = 0 (line 214)
NaNMap(h, w) == [height |-> h, width |-> w, px |-> [p \in Pixels(h, w) |-> NaN]]

\* the maps that _generate_saliency_heatmap hands to the attention stages
SaliencyMaps(model, h, w) ==
    IF ~model /\ MaxDistance(h, w) = 0 THEN {NaNMap(h, w)}
    ELSE {[height |-> h, width |-> w, px |-> [p \in Pixels(h, w) |-> <<f[p], MapLevels>>]] :
             f \in [Pixels(h, w) -> 0..MapLevels]}

\* analyze_design, lines 131-136, on an image and the map generated for it
InitHierarchy ==
    /\ entry = "hierarchy"
    /\ pc = "h_start"
    /\ TrainingIdle
    /\ AnalysisIdle
    /\ has_model \in BOOLEAN
    /\ img_height \in 1..MaxBandHeight
    /\ img_width \in 1..MaxBandWidth
    /\ saliency_map \in SaliencyMaps(has_model, img_height, img_width)
    /\ ForwardIdle
    /\ ScoringIdle
    /\ LoadIdle
    /\ ElementsIdle
    /\ BandsIdle
    /\ DatasetIdle
    /\ RequestIdle

outside_hierarchy == <<entry, training, analysis, heatmap, forward, scoring, elements,
                       dataset, request>>

\* line 132
AssessVisualHierarchy ==
    /\ pc = "h_start"
    /\ hierarchy' = HierarchyRecord(saliency_map, img_height, img_width)
    /\ pc' = "h_load"
    /\ UNCHANGED <<outside_hierarchy, load>>

\* line 136, _estimate_cognitive_load, line 458
CalculateEntropy ==
    /\ pc = "h_load"
    /\ entropy' = CalculatedEntropy(saliency_map)
    /\ pc' = "h_done"
    /\ UNCHANGED <<outside_hierarchy, hierarchy, element_count, colors, density,
                   cognitive_load>>

NextHierarchy ==
    \/ AssessVisualHierarchy
    \/ CalculateEntropy

SpecHierarchy == InitHierarchy /\ [][NextHierarchy]_vars

(***************************************************************************)
(* ComprehensiveAttentionAnalyzer.analyze_design on the analyzer that      *)
(* api/analysis.py constructs once, called by several requests             *)
(*                                                                         *)
(* An image is 600 x 900 pixels.  Its saliency map is described by what    *)
(* the stages read from it: the mean of each block of a 3 x 3 grid (a      *)
(* contour lies inside one block, a third of the rows or columns is a row  *)
(* or column of blocks) and the entropy of its histogram.                  *)
(***************************************************************************)
DesignSize == <<600, 900>>

Thumbnails == 1..MaxThumbnails
Requests == 1..MaxRequests

BlockMap(f) ==
    [height |-> 3, width |-> 3, px |-> [p \in Pixels(3, 3) |-> <<f[p], MapLevels>>]]

\* attention on the bottom rows and the right column; the same attention everywhere
BottomRight ==
    [p \in Pixels(3, 3) |-> IF p[1] = 2 \/ (p[1] = 1 /\ p[2] = 2) THEN MapLevels ELSE 0]
Level == [p \in Pixels(3, 3) |-> MapLevels]

\* what _generate_saliency_heatmap can return for an image
SaliencyOutputs ==
    {[blocks |-> BlockMap(BottomRight), entropy |-> MaxEntropy],
     [blocks |-> BlockMap(Level), entropy |-> MaxEntropy + 1]}

\* bounding rectangles: below the area band, in the top band, low and off-centre
Thin == [x |-> 0, y |-> 400, w |-> 80, h |-> 10]
HeaderBox == [x |-> 0, y |-> 50, w |-> 80, h |-> 50]
Badge == [x |-> 0, y |-> 400, w |-> 80, h |-> 50]

\* the contours that Canny and findContours give for the images explored: none,
\* one outside the area band, two inside it, more than fifty outside it
DesignContours ==
    {<<>>, <<Thin>>, <<HeaderBox, Badge>>, Copies(Thin, MaxElementCount + 1)}

\* an image: its contours, its colours and edge density, the tensor that
\* self.transform makes of it, and the map that _heuristic_saliency computes from it
Designs ==
    {d \in [contours : DesignContours,
            colors : {MAX_COLORS, MAX_COLORS + 1},
            density : {OPTIMAL_DENSITY, OPTIMAL_DENSITY + 1},
            thumbnail : Thumbnails,
            heuristic : SaliencyOutputs] :
        (d.colors > MAX_COLORS) = (d.density > OPTIMAL_DENSITY)}

\* __init__, lines 93-115: the attributes of self; a loaded model is the function
\* that its weights compute
Analyzer(model) ==
    [device |-> "cpu", model |-> model, transform |-> <<256, 256>>,
     MAX_ELEMENTS |-> 7, MAX_COLORS |-> MAX_COLORS, OPTIMAL_DENSITY |-> OPTIMAL_DENSITY]

Analyzers == {Analyzer(model) : model \in {None} \cup [Thumbnails -> SaliencyOutputs]}

\* the locals of a call that has not opened its image
NoLocals ==
    [stage |-> "idle", saliency_map |-> None, critical_elements |-> <<>>,
     attention_priority_issues |-> <<>>, hierarchy_analysis |-> None,
     cognitive_load_analysis |-> None, returned |-> None]

\* a model that the first call to return leaves unusable
SaliencyAfterFirstCall(fields, d) ==
    IF fields.model # None /\ analyses = <<>> THEN fields.model[d.thumbnail]
    ELSE d.heuristic

\* _generate_saliency_heatmap, lines 164-186: if self.model
GeneratedSaliency(fields, d) ==
    IF fields.model # None THEN fields.model[d.thumbnail] ELSE d.heuristic

\* line 270: saliency_map[y:y+h, x:x+w].mean(), in ten-thousandths
RegionMean(c, blocks) ==
    LET v == blocks.px[<<c.y \div (DesignSize[1] \div 3), c.x \div (DesignSize[2] \div 3)>>]
    IN (10000 * v[1]) \div v[2]

Attended(cs, blocks) ==
    [k \in 1..Len(cs) |->
        [x |-> cs[k].x, y |-> cs[k].y, w |-> cs[k].w, h |-> cs[k].h,
         avg |-> RegionMean(cs[k], blocks)]]

\* the keys that every issue dict of lines 324-336, 342-355, 378-390, 394-406,
\* 411-422, 471-482, 487-498, 503-514 and 519-529 is written with
IssueFields(id) ==
    CASE id = "attention_priority" ->
            [category |-> "Attention", subcategory |-> "Priority Mismatch",
             confidence |-> 80,
             explanation |-> "This element is important but only receives a part of user attention. Users may miss it.",
             fix_suggestion |-> "Increase visual prominence through size, color, contrast, or position."]
      [] id = "attention_overemphasis" ->
            [category |-> "Attention", subcategory |-> "Over-emphasis",
             confidence |-> 65,
             explanation |-> "This element receives a part of user attention, which might distract from more important content.",
             fix_suggestion |-> "Consider reducing visual prominence if not a primary action."]
      [] id = "hierarchy_inverted" ->
            [category |-> "Attention", subcategory |-> "Visual Hierarchy",
             confidence |-> 75,
             explanation |-> "Users typically start at the top. Important content should be placed higher.",
             fix_suggestion |-> "Move critical elements to the top third of the design."]
      [] id = "hierarchy_right_heavy" ->
            [category |-> "Attention", subcategory |-> "Visual Hierarchy",
             confidence |-> 70,
             explanation |-> "Western reading patterns favor left-to-right flow. Important content should start on the left.",
             fix_suggestion |-> "Consider left-aligning primary content and CTAs."]
      [] id = "hierarchy_flat" ->
            [category |-> "Attention", subcategory |-> "Visual Hierarchy",
             confidence |-> 70,
             explanation |-> "All areas receive similar attention, making it unclear what's most important.",
             fix_suggestion |-> "Create clear hierarchy using size, color, and contrast to emphasize important elements."]
      [] id = "cognitive_too_many_elements" ->
            [category |-> "Attention", subcategory |-> "Cognitive Load",
             confidence |-> 75,
             explanation |-> "Too many elements increase cognitive load and make it hard for users to focus.",
             fix_suggestion |-> "Simplify design by grouping related elements or removing non-essential items."]
      [] id = "cognitive_too_many_colors" ->
            [category |-> "Attention", subcategory |-> "Cognitive Load",
             confidence |-> 80,
             explanation |-> "Using more than 5 dominant colors can overwhelm users and reduce visual coherence.",
             fix_suggestion |-> "Limit color palette to 5 or fewer dominant colors."]
      [] id = "cognitive_high_density" ->
            [category |-> "Attention", subcategory |-> "Cognitive Load",
             confidence |-> 70,
             explanation |-> "High density makes designs feel overwhelming and reduces comprehension.",
             fix_suggestion |-> "Add more white space and reduce visual clutter."]
      [] id = "cognitive_fragmented_attention" ->
            [category |-> "Attention", subcategory |-> "Cognitive Load",
             confidence |-> 75,
             explanation |-> "Scattered attention increases cognitive load and reduces task completion.",
             fix_suggestion |-> "Create clear focal points to guide user attention."]

\* an issue dict as the stages append it; confidence in hundredths
IssueDict(issue) ==
    [id |-> issue.id, severity |-> issue.severity,
     category |-> IssueFields(issue.id).category,
     subcategory |-> IssueFields(issue.id).subcategory,
     confidence |-> IssueFields(issue.id).confidence,
     explanation |-> IssueFields(issue.id).explanation,
     fix_suggestion |-> IssueFields(issue.id).fix_suggestion]

IssueDicts(list) == [k \in 1..Len(list) |-> IssueDict(list[k])]

\* a count of the hierarchy issues taken from the whole list
IssueSummaryOfAll(priority, hier, cognitive) ==
    [attention_priority |-> Len(priority),
     visual_hierarchy |-> Len(priority) + Len(hier) + Len(cognitive),
     cognitive_load |-> Len(cognitive)]

\* lines 155-159
IssueSummary(priority, hier, cognitive) ==
    [attention_priority |-> Len(priority),
     visual_hierarchy |-> Len(hier),
     cognitive_load |-> Len(cognitive)]

\* _generate_recommendations, lines 641-694: one entry for each group of issues
Recommendations(all, level) ==
    LET has(sub) == \E k \in 1..Len(all) : all[k].subcategory = sub
    IN (IF has("Priority Mismatch")
        THEN <<[category |-> "Attention Priority", priority |-> "high"]>>
        ELSE <<>>)
    \o (IF has("Visual Hierarchy")
        THEN <<[category |-> "Visual Hierarchy", priority |-> "high"]>>
        ELSE <<>>)
    \o (IF has("Cognitive Load")
        THEN <<[category |-> "Cognitive Load",
                priority |-> IF level \in {"High - May overwhelm some users",
                                           "Very High - Likely to cause cognitive overload"}
                             THEN "high" ELSE "medium"]>>
        ELSE <<>>)

\* _analyze_attention_distribution, lines 604-615: the mean and the maximum of the
\* map, in thousandths
AttentionDistribution(blocks) ==
    [average_attention |-> Rounded(Mean(blocks, 0..2, 0..2), 1000),
     max_attention |-> SetMax({(1000 * blocks.px[p][1]) \div blocks.px[p][2] :
                                  p \in DOMAIN blocks.px})]

\* lines 139-162: the dict returned; score in hundredths
ReportDict(l) ==
    LET priority == IssueDicts(l.attention_priority_issues)
        hier == IssueDicts(l.hierarchy_analysis.issues)
        cognitive == IssueDicts(l.cognitive_load_analysis.issues)
        all == priority \o hier \o cognitive
    IN [score |-> Round3(CalculatedScore(all,
                                         l.cognitive_load_analysis.cognitive_load_score)),
        saliency_heatmap |-> "heatmap_overlay_path",
        attention_distribution |-> AttentionDistribution(l.saliency_map.blocks),
        critical_elements |-> l.critical_elements,
        visual_hierarchy |-> l.hierarchy_analysis,
        cognitive_load |-> l.cognitive_load_analysis,
        issues |-> all,
        issue_summary |-> IssueSummary(priority, hier, cognitive),
        recommendations |-> Recommendations(all, l.cognitive_load_analysis.level)]

\* attention_analyzer = ComprehensiveAttentionAnalyzer(str(MODEL_PATH)), line 34 of
\* api/analysis.py, before any request
InitDesign ==
    /\ entry = "design"
    /\ pc = "serving"
    /\ TrainingIdle
    /\ AnalysisIdle
    /\ HeatmapIdle
    /\ ForwardIdle
    /\ ScoringIdle
    /\ LoadIdle
    /\ ElementsIdle
    /\ BandsIdle
    /\ DatasetIdle
    /\ self_fields \in Analyzers
    /\ design = [r \in Requests |-> None]
    /\ report = [r \in Requests |-> NoLocals]
    /\ analyses = <<>>

outside_design == <<pc, entry, training, analysis, heatmap, forward, scoring, load,
                    elements, bands, dataset>>

\* lines 121-122
OpenImage(r) ==
    /\ report[r].stage = "idle"
    /\ \E d \in Designs : design' = [design EXCEPT ![r] = d]
    /\ report' = [report EXCEPT ![r].stage = "opened"]
    /\ UNCHANGED <<outside_design, self_fields, analyses>>

\* line 125
GenerateSaliencyHeatmap(r) ==
    /\ report[r].stage = "opened"
    /\ report' = [report EXCEPT ![r].stage = "saliency",
                                ![r].saliency_map =
                                    GeneratedSaliency(self_fields, design[r])]
    /\ UNCHANGED <<outside_design, self_fields, design, analyses>>

\* lines 128-129
IdentifyAndVerify(r) ==
    /\ report[r].stage = "saliency"
    /\ LET found == CriticalElements(Attended(design[r].contours,
                                              report[r].saliency_map.blocks),
                                     DesignSize[1], DesignSize[2])
       IN report' = [report EXCEPT ![r].stage = "elements",
                                   ![r].critical_elements = found,
                                   ![r].attention_priority_issues =
                                       PriorityIssues(found, 1)]
    /\ UNCHANGED <<outside_design, self_fields, design, analyses>>

\* lines 132-133
AssessHierarchy(r) ==
    /\ report[r].stage = "elements"
    /\ report' = [report EXCEPT ![r].stage = "hierarchy",
                                ![r].hierarchy_analysis =
                                    HierarchyRecord(report[r].saliency_map.blocks, 3, 3)]
    /\ UNCHANGED <<outside_design, self_fields, design, analyses>>

\* lines 136-137
EstimateLoad(r) ==
    /\ report[r].stage = "hierarchy"
    /\ report' = [report EXCEPT ![r].stage = "load",
                                ![r].cognitive_load_analysis =
                                    LoadRecord(Len(design[r].contours), design[r].colors,
                                               design[r].density,
                                               report[r].saliency_map.entropy)]
    /\ UNCHANGED <<outside_design, self_fields, design, analyses>>

\* lines 139-162
ReturnReport(r) ==
    /\ report[r].stage = "load"
    /\ report' = [report EXCEPT ![r].stage = "returned",
                                ![r].returned = ReportDict(report[r])]
    /\ analyses' = Append(analyses, r)
    /\ UNCHANGED <<outside_design, self_fields, design>>

\* the steps of one call of analyze_design
AnalyzeDesign(r) ==
    \/ OpenImage(r)
    \/ GenerateSaliencyHeatmap(r)
    \/ IdentifyAndVerify(r)
    \/ AssessHierarchy(r)
    \/ EstimateLoad(r)
    \/ ReturnReport(r)

NextDesign == \E r \in Requests : AnalyzeDesign(r)

SpecDesign == InitDesign /\ [][NextDesign]_vars

(***************************************************************************)
(* SaliencyDataset (training/dataset.py)                                   *)
(*                                                                         *)
(* A file name is its base name and its extension, [base, ext].            *)
(***************************************************************************)
Bases == {"a", "b"}
ImageExts == {".png", ".JPG", ".txt"}
MapExts == {".png", ".jpg"}

Names(exts) == [base : Bases, ext : exts]

\* os.listdir(image_dir): distinct names, in the order of the file system
Listings ==
    {l \in ListsUpTo(Names(ImageExts), MaxEntries) :
        \A j, k \in 1..Len(l) : j # k => l[j] # l[k]}

\* str.lower() of an extension
Lower(ext) == IF ext = ".JPG" THEN ".jpg" ELSE ext

\* line 28: file.lower().endswith(('.png', '.jpg', '.jpeg'))
IsImageFile(f) == Lower(f.ext) \in {".png", ".jpg", ".jpeg"}

\* lines 30-31 and 64-65: os.path.splitext(file)[0] + '.png'
SaliencyFile(f) == [base |-> f.base, ext |-> ".png"]

\* lines 27-33: the files appended to self.image_files, from entry k on
RECURSIVE PairedFiles(_, _, _)
PairedFiles(l, maps, k) ==
    IF k > Len(l) THEN <<>>
    ELSE (IF IsImageFile(l[k]) /\ SaliencyFile(l[k]) \in maps THEN <<l[k]>> ELSE <<>>)
         \o PairedFiles(l, maps, k + 1)

\* __getitem__, lines 56-74: the pair of files opened, or the error of Image.open
Sample(f, maps) ==
    IF SaliencyFile(f) \in maps
    THEN [kind |-> "sample", image |-> f, saliency |-> SaliencyFile(f)]
    ELSE [kind |-> "error", raised |-> "FileNotFoundError"]

\* SaliencyDataset(image_dir, saliency_dir) on two directories
InitDataset ==
    /\ entry = "dataset"
    /\ pc = "d_start"
    /\ TrainingIdle
    /\ AnalysisIdle
    /\ HeatmapIdle
    /\ ForwardIdle
    /\ ScoringIdle
    /\ LoadIdle
    /\ ElementsIdle
    /\ BandsIdle
    /\ RequestIdle
    /\ image_dir \in Listings
    /\ saliency_dir \in SUBSET Names(MapExts)
    /\ dataset_files = <<>>
    /\ sample = None

outside_dataset == <<entry, training, analysis, heatmap, forward, scoring, load,
                     elements, bands, request>>

\* __init__, lines 14-54
DatasetInit ==
    /\ pc = "d_start"
    /\ dataset_files' = PairedFiles(image_dir, saliency_dir, 1)
    /\ pc' = "d_ready"
    /\ UNCHANGED <<outside_dataset, image_dir, saliency_dir, sample>>

\* dataset[idx] for an idx of range(len(dataset))
GetItem ==
    /\ pc = "d_ready"
    /\ \E idx \in 1..Len(dataset_files) :
          sample' = Sample(dataset_files[idx], saliency_dir)
    /\ UNCHANGED <<pc, outside_dataset, image_dir, saliency_dir, dataset_files>>

NextDataset ==
    \/ DatasetInit
    \/ GetItem

SpecDataset == InitDataset /\ [][NextDataset]_vars

(***************************************************************************)
(* Properties of the training script                                       *)
(***************************************************************************)
\* minimum of the validation losses of the epochs before epoch e (from 1)
RECURSIVE MinBefore(_, _)
MinBefore(vl, e) ==
    IF e <= 1 THEN Inf
    ELSE LET m == MinBefore(vl, e - 1)
         IN IF vl[e - 1] < m THEN vl[e - 1] ELSE m

\* the earliest epoch among 1..k that attains the minimum validation loss of 1..k
RECURSIVE ArgMin(_, _)
ArgMin(vl, k) ==
    IF k <= 1 THEN k
    ELSE IF vl[k] < MinBefore(vl, k) THEN k ELSE ArgMin(vl, k - 1)

\* positions of the loop body after the best-model step of the current epoch
AfterBestStep == {"ckpt_decision", "ckpt_open", "ckpt_write"}

\* positions of the loop body after the scheduler step of the current epoch
AfterSchedStep == {"best_decision", "best_open", "best_write"} \cup AfterBestStep

\* number of epochs of this run whose best-model step has finished
BestDecided == IF pc \in AfterBestStep THEN epoch + 1 ELSE epoch

\* number of epochs of this run whose scheduler step has finished
SchedDone == IF pc \in AfterSchedStep THEN epoch + 1 ELSE epoch

AfterInterrupt == {"interrupted", "done_after_interrupt"}

\* C1: the best-weights file is written at the end of an epoch if and only if that
\* epoch's validation loss is strictly below the minimum of all earlier epochs of
\* the run; the first epoch always writes, an epoch that ties the minimum does not.
C1_BestSavedIffStrictlyBetter ==
    entry = "train" =>
        /\ \A e \in best_saved :
              /\ e <= Len(val_losses)
              /\ val_losses[e] < MinBefore(val_losses, e)
        /\ \A e \in 1..BestDecided :
              val_losses[e] < MinBefore(val_losses, e) => e \in best_saved
        /\ (BestDecided >= 1 => 1 \in best_saved)

\* three epochs done: the first saved, the second tied the minimum and did not
\* save, the third improved and saved
C1_Witness ==
    /\ pc = "loop"
    /\ epoch = 3
    /\ val_losses[1] = val_losses[2]
    /\ val_losses[3] < val_losses[2]
    /\ best_saved = {1, 3}

\* C2: after a KeyboardInterrupt at any point of train that follows at least one
\* best-model save, main goes on to its end and the best-weights file holds the
\* weights of the epoch with the lowest validation loss among the epochs whose
\* checkpoint decision had completed.
C2_InterruptKeepsBestWeights ==
    (entry = "train" /\ pc \in AfterInterrupt /\ best_saved # {}) =>
        \E k \in {epoch, Len(val_losses)} :
            /\ k >= 1
            /\ best_file = BestContent(ArgMin(val_losses, k))

\* C3: wherever training is cancelled, each checkpoint file at its final path is a
\* complete version, never a partial file.
C3_NoPartialFileAfterCancel ==
    (entry = "train" /\ pc \in AfterInterrupt) =>
        /\ best_file # Partial
        /\ \A e \in DOMAIN ckpt_files : ckpt_files[e] # Partial

\* C4: main never runs an epoch over zero samples: whenever training has started,
\* the training subset and the validation subset are both non-empty, and no pass
\* divides its accumulated loss by a batch count of zero.
C4_NeverTrainsOnZeroSamples ==
    entry = "train" =>
        /\ pc \in TrainPcs \ {"loop", "plot"} => (train_size > 0 /\ val_size > 0)
        /\ pc # "crashed_zero_division"

\* the latest complete snapshot of save_dir
Snapshots == {e \in DOMAIN ckpt_files : ckpt_files[e].kind = "snapshot"}
LatestSnapshot == ckpt_files[CHOOSE e \in Snapshots : \A d \in Snapshots : d <= e]

\* C7: a run restarted after an interruption enters the training loop from the most
\* recent persisted snapshot: its weights, its optimizer state and the epoch after
\* the recorded one, not epoch 1 with fresh weights.
C7_RestartResumesFromSnapshot ==
    (entry = "train" /\ run > 1 /\ pc = "loop" /\ train_losses = <<>>
        /\ Snapshots # {}) =>
        /\ epoch = LatestSnapshot.epoch + 1
        /\ weights = LatestSnapshot.model_state_dict
        /\ lr_halvings = LatestSnapshot.optimizer_state_dict

\* C8: a full snapshot (weights, optimizer state, epoch index, train and validation
\* loss of that epoch) is written at the end of epoch e (from 1) exactly when e is a
\* multiple of 10, improved or not, and the stored index, the 0-based loop index
\* e - 1, identifies the epoch e that names the file.
C8_SnapshotEveryTenthEpoch ==
    entry = "train" =>
        /\ \A e \in 1..epoch : (e \in Snapshots) <=> (e % 10 = 0)
        /\ \A e \in DOMAIN ckpt_files : e % 10 = 0 /\ e <= epoch + 1
        /\ \A e \in Snapshots :
              ckpt_files[e] =
                  Snapshot(e - 1, e, Cardinality({c \in lr_cut : c <= e}),
                           train_losses[e], val_losses[e])

\* the snapshot of epoch 10 is on disk although epoch 10 did not improve
C8_Witness ==
    /\ pc = "loop"
    /\ epoch = 10
    /\ 10 \in Snapshots
    /\ 10 \notin best_saved
    /\ ckpt_files[10].epoch = 9

\* the scheduler's best after the first e epochs: a loss replaces it only when it is
\* below best * (1 - 1e-4)
RECURSIVE BestSeen(_, _)
BestSeen(vl, e) ==
    IF e = 0 THEN Inf
    ELSE LET b == BestSeen(vl, e - 1)
         IN IF b = Inf \/ vl[e] * 10000 < b * 9999 THEN vl[e] ELSE b

NonImproving(vl, e) ==
    LET b == BestSeen(vl, e - 1) IN ~(b = Inf \/ vl[e] * 10000 < b * 9999)

\* length of the run of consecutive non-improving epochs that ends with epoch e
RECURSIVE RunLength(_, _)
RunLength(vl, e) ==
    IF e = 0 THEN 0
    ELSE IF NonImproving(vl, e) THEN RunLength(vl, e - 1) + 1 ELSE 0

\* the same count, started again after each epoch at which it reached n
RECURSIVE Streak(_, _, _)
Streak(vl, e, n) ==
    IF e = 0 THEN 0
    ELSE IF ~NonImproving(vl, e) THEN 0
    ELSE LET s == Streak(vl, e - 1, n) IN IF s = n THEN 1 ELSE s + 1

\* C9 as stated: the learning rate is halved at the end of an epoch exactly when
\* that epoch is the 5th consecutive non-improving one, and is unchanged otherwise.
C9_HalvedAtFifthBadEpoch ==
    entry = "train" =>
        \A e \in 1..SchedDone : (e \in lr_cut) <=> (RunLength(val_losses, e) = 5)

\* C9 amended: the learning rate is halved at the end of an epoch exactly when that
\* epoch is the 6th consecutive non-improving one counted since the last improvement
\* or the last halving (the count exceeds the patience of 5), as long as the
\* halving changes the rate by more than the scheduler's eps; it is unchanged
\* otherwise.
C9_HalvedAtSixthBadEpoch ==
    entry = "train" =>
        /\ \A e \in 1..SchedDone :
              (e \in lr_cut) <=>
                  /\ Streak(val_losses, e, 6) = 6
                  /\ Pow2(Cardinality({c \in lr_cut : c < e}) + 1) < 10000
        /\ \A e \in lr_cut : e <= Len(val_losses)
        /\ lr_halvings = Cardinality(lr_cut)

\* seven epochs done: the first set the best, the next six did not improve, and the
\* rate was halved once, at the seventh
C9_Witness ==
    /\ pc = "loop"
    /\ epoch = 7
    /\ RunLength(val_losses, 7) = 6
    /\ lr_cut = {7}
    /\ lr_halvings = 1

\* C10: a call of train that is not interrupted ends after exactly num_epochs
\* epochs, with num_epochs entries in train_losses and in val_losses; nothing but
\* the budget ends the loop.
C10_RunsExactlyTheBudget ==
    (entry = "train" /\ pc \in {"returned", "done", "crashed_zero_division"}) =>
        /\ epoch = num_epochs
        /\ Len(train_losses) = num_epochs
        /\ Len(val_losses) = num_epochs

(***************************************************************************)
(* Properties of the analysis scripts                                      *)
(***************************************************************************)
SingleEnd == {"s_no_image", "s_refused", "s_failed", "s_done", "crashed_load"}

InAttempts(k) == \E j \in 1..Len(attempts) : attempts[j] = k

\* C5: with no weights file the analyzer takes the heuristic source, and every
\* analysis started through the single-image or the batch script runs and returns
\* a report for a readable image, instead of failing or refusing to run.
C5_MissingWeightsStillAnalysed ==
    model_file = "absent" =>
        /\ (entry = "single" /\ pc \in SingleEnd /\ image = "ok") =>
              /\ analyzer = "heuristic"
              /\ result = Report("heuristic", 0)
        /\ (entry = "batch" /\ pc = "b_done") =>
              /\ analyzer = "heuristic"
              /\ \A j \in 1..Len(image_files) :
                    listing[image_files[j]] = "ok" => InAttempts(image_files[j])
        /\ pc # "crashed_load"

\* items whose analysis and report both went through: their report file exists
Succeeded == reports \ {0}

\* C6: batch_analyze hands every image file to the analyzer exactly once, in list
\* order; a failure on an item is caught and the loop goes on with the next item;
\* the loop, once entered, reaches the end of the run after the last item; and the
\* summaries recorded are those of the items that succeeded.
C6_BatchTriesEveryItemOnce ==
    /\ [](entry = "batch" =>
            /\ attempts = SubSeq(image_files, 1,
                                 IF pc = "b_analyze" THEN item - 1 ELSE item)
            /\ pc \in {"b_summary", "b_done"} => item = Len(image_files)
            /\ pc = "b_done" =>
                  /\ Len(results) = Cardinality(Succeeded)
                  /\ \A j \in 1..Len(results) : results[j].filename \in Succeeded)
    /\ ((entry = "batch" /\ pc = "b_loop") ~> (pc = "b_done"))

\* a run over three images: the first is unreadable, one report could not be
\* written, one item succeeded; all three were tried, in order
C6_Witness ==
    /\ entry = "batch"
    /\ pc = "b_done"
    /\ Len(image_files) = 3
    /\ listing = <<"unreadable", "ok", "ok">>
    /\ attempts = <<1, 2, 3>>
    /\ Cardinality(Succeeded) = 1
    /\ Len(results) = 1

(***************************************************************************)
(* Properties of the analyzer's methods                                    *)
(***************************************************************************)
\* a value is a number of [0, 1]
InUnitInterval(v) == v[2] > 0 /\ 0 <= v[1] /\ v[1] <= v[2]

\* C11: the saliency map that _generate_saliency_heatmap returns has the size of
\* the image and every value of it lies in [0, 1], from either source.
C11_SaliencyValuesInUnitInterval ==
    (entry = "heatmap" /\ pc = "g_done") =>
        /\ saliency_map.height = img_height
        /\ saliency_map.width = img_width
        /\ \A p \in DOMAIN saliency_map.px : InUnitInterval(saliency_map.px[p])

ForwardEnded == entry = "forward" /\ pc \in {"f_raised", "f_returned"}

MultipleOf8(size) == size[1] % 8 = 0 /\ size[2] % 8 = 0

Concatenations == {"cat1", "cat2", "cat3"}
Poolings == {"pool1", "pool2", "pool3"}

\* the part of C12 that holds as stated: forward returns a one-channel map of the
\* input's height and width when both are multiples of 8, and raises otherwise
ForwardReturnsSameSizeOrRaises ==
    ForwardEnded =>
        IF MultipleOf8(x_shape)
        THEN /\ pc = "f_returned"
             /\ forward_out = [kind |-> "tensor", channels |-> 1, size |-> x_shape]
        ELSE /\ pc = "f_raised"
             /\ forward_out.kind = "error"

\* C12 as stated: forward returns a one-channel map of the input's height and
\* width when both are multiples of 8, and for every other shape the error is
\* raised at a skip-connection concatenation.
C12_OtherShapesFailAtConcatenation ==
    /\ ForwardReturnsSameSizeOrRaises
    /\ (ForwardEnded /\ ~MultipleOf8(x_shape)) => forward_out.at \in Concatenations

\* C12 amended: forward returns a one-channel map of the input's height and width
\* when both are multiples of 8; for every other shape it raises, at a max pooling
\* when the height or the width is below 8 and at a skip-connection concatenation
\* otherwise, and never returns a map of another size.
C12_OtherShapesFailAtPoolingOrConcatenation ==
    /\ ForwardReturnsSameSizeOrRaises
    /\ (ForwardEnded /\ ~MultipleOf8(x_shape)) =>
          IF x_shape[1] < 8 \/ x_shape[2] < 8
          THEN forward_out.at \in Poolings
          ELSE forward_out.at \in Concatenations

C12_Witness ==
    /\ entry = "forward"
    /\ pc = "f_raised"
    /\ x_shape = <<4, 16>>
    /\ forward_out.at \in Poolings

ScoreReturned == entry = "score" /\ pc = "c_returned"

\* number of issues of the list whose severity field is s
CountOf(iss, s) == Cardinality({k \in 1..Len(iss) : iss[k].severity = s})

\* the penalties of C13, in thousandths: 10 per critical issue, 7 per high, 4 per
\* medium, 2 per low, an issue without severity counting as low
ClaimedPenalties(iss) ==
      10000 * CountOf(iss, "critical")
    + 7000 * CountOf(iss, "high")
    + 4000 * CountOf(iss, "medium")
    + 2000 * (CountOf(iss, "low") + CountOf(iss, Missing))

\* 100 - 0.3 * cognitive_load_score - penalties, in thousandths
Unclamped(iss, cl) == 100000 - 3 * cl - ClaimedPenalties(iss)

\* C13: the composite score equals clamp(100 - 0.3 * cognitive_load_score - sum of
\* the per-issue penalties, 0, 100), for every list of issues and every
\* cognitive-load score.
C13_ScoreIsClampedDeduction ==
    ScoreReturned =>
        score = IF Unclamped(issues, cl_score) < 0 THEN 0
                ELSE IF Unclamped(issues, cl_score) > 100000 THEN 100000
                ELSE Unclamped(issues, cl_score)

C13_Witness ==
    /\ ScoreReturned
    /\ CountOf(issues, Missing) > 0
    /\ CountOf(issues, "critical") > 0
    /\ CountOf(issues, "medium") > 0
    /\ cl_score > 0
    /\ score > 0
    /\ score < 100000

\* the list without its k-th issue
Without(iss, k) == SubSeq(iss, 1, k - 1) \o SubSeq(iss, k + 1, Len(iss))

\* C14: the composite score lies in [0, 100]; it is 0 whenever the total deduction
\* is 100 or more, it is 100 when there are no issues and the cognitive-load score
\* is 0, and a list with one more issue never has a higher score.
C14_ScoreBoundedAndMonotone ==
    ScoreReturned =>
        /\ 0 <= score
        /\ score <= 100000
        /\ (3 * cl_score + ClaimedPenalties(issues) >= 100000) => score = 0
        /\ (issues = <<>> /\ cl_score = 0) => score = 100000
        /\ \A k \in 1..Len(issues) :
              score <= CalculatedScore(Without(issues, k), cl_score)

C14_Witness ==
    /\ ScoreReturned
    /\ 3 * cl_score + ClaimedPenalties(issues) > 100000
    /\ score = 0

LoadReturned == entry = "load" /\ pc = "l_returned"

\* a sub-score normalised to the range 0 to 100: 100 * value / ceiling, at most 100,
\* as a number of 1 / 3000
Normalised(value, ceiling) ==
    IF value >= ceiling THEN 300000 ELSE (value * 300000) \div ceiling

\* C15: the cognitive-load score is 0.3, 0.2, 0.3, 0.2 times the four sub-scores,
\* each normalised to 0..100 (element count against 50, colours against 10, density
\* against 0.3, entropy against 6 bits), and lies in [0, 100].
C15_LoadIsWeightedSumOfNormalisedScores ==
    LoadReturned =>
        LET claimed == (  3 * Normalised(element_count, 50)
                        + 2 * Normalised(colors, 10)
                        + 3 * Normalised(density, 300)
                        + 2 * Normalised(entropy, 6000)) \div 10
            computed == CognitiveLoadScore(element_count, colors, density, entropy)
        IN /\ computed = claimed
           /\ 0 <= computed
           /\ computed <= 300000

\* the part of C15 that the code satisfies: the score lies in [0, 100]
LoadScoreInRange ==
    LoadReturned =>
        /\ 0 <= cognitive_load.cognitive_load_score
        /\ cognitive_load.cognitive_load_score <= 10000

\* C16: the cognitive-load score is non-decreasing in each input: raising the
\* element count, the colour count, the density or the entropy alone never gives a
\* smaller score.
C16_LoadMonotoneInEachInput ==
    LoadReturned =>
        LET here == CognitiveLoadScore(element_count, colors, density, entropy)
        IN /\ cognitive_load.cognitive_load_score = Round2(here)
           /\ \A c \in ElementCounts :
                 c > element_count =>
                     CognitiveLoadScore(c, colors, density, entropy) >= here
           /\ \A n \in ColorCounts :
                 n > colors =>
                     CognitiveLoadScore(element_count, n, density, entropy) >= here
           /\ \A d \in Densities :
                 d > density =>
                     CognitiveLoadScore(element_count, colors, d, entropy) >= here
           /\ \A e \in Entropies :
                 e > entropy =>
                     CognitiveLoadScore(element_count, colors, density, e) >= here

C16_Witness ==
    /\ LoadReturned
    /\ element_count > 0
    /\ colors > 0
    /\ density > 0
    /\ entropy > 0
    /\ cognitive_load.cognitive_load_score < 10000
    /\ \E d \in Densities :
          /\ d > density
          /\ CognitiveLoadScore(element_count, colors, d, entropy)
                > CognitiveLoadScore(element_count, colors, density, entropy)

\* C17: the level of a cognitive-load record is the band of the score reported in
\* the same record: Low below 30, Moderate from 30 to below 50, High from 50 to
\* below 70, Very High from 70.
C17_LevelIsBandOfReportedScore ==
    LoadReturned =>
        LET reported == cognitive_load.cognitive_load_score
        IN cognitive_load.level =
              IF reported < 3000 THEN "Low - Easy to process"
              ELSE IF reported < 5000 THEN "Moderate - Manageable complexity"
              ELSE IF reported < 7000 THEN "High - May overwhelm some users"
              ELSE "Very High - Likely to cause cognitive overload"

Identified == entry \in {"region", "elements"} /\ pc \in {"e_verify", "e_returned"}

Verified == entry \in {"region", "elements"} /\ pc = "e_returned"

Range(seq) == {seq[k] : k \in 1..Len(seq)}

\* C18: a detected region is given importance high iff its top edge is above 30%
\* of the image height, or its area exceeds 10000, or its centre is closer than
\* 20% of the image width to the image centre, and medium otherwise; is_top is
\* what makes a region more than 3 times as wide as high a Header/Navigation.
C18_HighIffTopOrLargeOrCentered ==
    (entry = "region" /\ Identified) =>
        LET c == contours[1]
            top == 10 * c.y < 3 * img_height
            large == c.w * c.h > 10000
            centered == 10 * Abs(2 * c.x + c.w - img_width) < 4 * img_width
        IN IF 1000 < c.w * c.h /\ c.w * c.h < 50000
           THEN /\ Len(critical_elements) = 1
                /\ critical_elements[1].importance =
                      IF top \/ large \/ centered THEN "high" ELSE "medium"
                /\ (c.w > 3 * c.h) =>
                      (critical_elements[1].type = "Header/Navigation" <=> top)
           ELSE critical_elements = <<>>

\* an element at y = 50 of a 600-pixel-tall image, high only because it is on top
C18_Witness ==
    /\ entry = "region"
    /\ Identified
    /\ img_height = 600
    /\ Len(critical_elements) = 1
    /\ critical_elements[1].location.y = 50
    /\ critical_elements[1].area <= 10000
    /\ 10 * Abs(2 * contours[1].x + contours[1].w - img_width) >= 4 * img_width
    /\ critical_elements[1].importance = "high"
    /\ critical_elements[1].type = "Header/Navigation"

\* the contours that lie in the accepted area band, by index (from 1)
InBand(cs) == {k \in 1..Len(cs) : 1000 < cs[k].w * cs[k].h /\ cs[k].w * cs[k].h < 50000}

\* the rank of the region of contour k: its tier and its attention score
RegionHigh(k) ==
    \/ 10 * contours[k].y < 3 * img_height
    \/ contours[k].w * contours[k].h > 10000
    \/ 10 * Abs(2 * contours[k].x + contours[k].w - img_width) < 4 * img_width

RanksBefore(high1, score1, high2, score2) ==
    \/ high1 /\ ~high2
    \/ high1 = high2 /\ score1 > score2

Reported == {critical_elements[k].id + 1 : k \in 1..Len(critical_elements)}

\* C19: the list has at most 10 entries, high-importance entries precede medium
\* ones, attention scores are non-increasing within a tier, and the list is the top
\* 10 of all regions in the area band: no region left out ranks before a reported one.
C19_ListIsTopTenOfRegionsInBand ==
    (entry = "elements" /\ Identified) =>
        /\ Len(critical_elements) <= 10
        /\ \A i, j \in 1..Len(critical_elements) :
              i < j =>
                 ~RanksBefore(critical_elements[j].importance = "high",
                              critical_elements[j].attention_score,
                              critical_elements[i].importance = "high",
                              critical_elements[i].attention_score)
        /\ Reported \subseteq InBand(contours)
        /\ Len(critical_elements) = Min(10, Cardinality(InBand(contours)))
        /\ \A out \in InBand(contours) \ Reported :
              \A in \in Reported :
                 ~RanksBefore(RegionHigh(out), Round3(contours[out].avg),
                              RegionHigh(in), Round3(contours[in].avg))

\* C20: every reported element gets exactly one issue of severity high when it is
\* high-importance and the mean saliency of its region is below 0.5, exactly one of
\* severity low when it is medium-importance and that mean exceeds 0.8, and none
\* otherwise; there are never more issues than reported elements.
C20_OneIssuePerMisattendedElement ==
    (entry = "elements" /\ Verified) =>
        /\ Len(priority_issues) <= Len(critical_elements)
        /\ \A k \in 1..Len(critical_elements) :
              LET e == critical_elements[k]
                  mean == contours[e.id + 1].avg
                  about == {i \in 1..Len(priority_issues) :
                               priority_issues[i].element = e}
                  severities == {priority_issues[i].severity : i \in about}
                  copies == Cardinality({j \in 1..Len(critical_elements) :
                                            critical_elements[j] = e})
              IN IF e.importance = "high" /\ mean < 5000
                 THEN Cardinality(about) = copies /\ severities = {"high"}
                 ELSE IF e.importance = "medium" /\ mean > 8000
                 THEN Cardinality(about) = copies /\ severities = {"low"}
                 ELSE about = {}

(***************************************************************************)
(* Properties of the visual-hierarchy and cognitive-load checks            *)
(***************************************************************************)
Assessed == entry = "hierarchy" /\ pc \in {"h_load", "h_done"}

Raised(list, id) == \E k \in 1..Len(list) : list[k].id = id

\* the pixels of the map whose row (axis 1) or column (axis 2) lies in the first
\* third and in the last third of an axis of length n
InFirstThird(axis, n) == {p \in DOMAIN saliency_map.px : 3 * (p[axis] + 1) <= n}
InLastThird(axis, n) == {p \in DOMAIN saliency_map.px : 3 * (p[axis] + 1) > 2 * n}

\* sum(a) / |a| < sum(b) / |b| for two regions that hold numbers
MeanBelow(a, b) ==
    /\ a # {}
    /\ b # {}
    /\ \A p \in a \cup b : saliency_map.px[p] # NaN
    /\ Total(saliency_map.px, a) * Cardinality(b)
           < Total(saliency_map.px, b) * Cardinality(a)

\* C21: the 'inverted hierarchy' issue is in the list that _assess_visual_hierarchy
\* returns exactly when the mean saliency of the bottom third of the rows is strictly
\* greater than the mean of the top third, and never when the top mean is greater or
\* equal, whatever the right-heavy and flat checks found.
C21_InvertedIffBottomAboveTop ==
    Assessed =>
        (Raised(hierarchy.issues, "hierarchy_inverted")
            <=> MeanBelow(InFirstThird(1, img_height), InLastThird(1, img_height)))

\* an inversion reported together with a right-heavy layout and without flatness
C21_Witness ==
    /\ Assessed
    /\ Raised(hierarchy.issues, "hierarchy_inverted")
    /\ Raised(hierarchy.issues, "hierarchy_right_heavy")
    /\ ~Raised(hierarchy.issues, "hierarchy_flat")
    /\ Total(saliency_map.px, InFirstThird(1, img_height)) > 0

(***************************************************************************)
(* Properties of analyze_design                                            *)
(***************************************************************************)
Running(r) == entry = "design" /\ report[r].stage \notin {"idle", "returned"}
Returned(r) == entry = "design" /\ report[r].stage = "returned"

\* no contour of the image has a bounding rectangle of area between 1000 and 50000
NoRegionInBand(d) ==
    \A k \in 1..Len(d.contours) :
        ~(1000 < d.contours[k].w * d.contours[k].h
            /\ d.contours[k].w * d.contours[k].h < 50000)

\* the call of request r stands before a stage of analyze_design, with the values
\* that the stage reads
Proceeds(r) ==
    /\ report[r].stage \in {"opened", "saliency", "elements", "hierarchy", "load"}
    /\ report[r].stage # "opened" => report[r].saliency_map \in SaliencyOutputs
    /\ report[r].stage \in {"elements", "hierarchy", "load"} =>
          /\ report[r].critical_elements = <<>>
          /\ report[r].attention_priority_issues = <<>>
    /\ report[r].stage \in {"hierarchy", "load"} =>
          report[r].hierarchy_analysis # None
    /\ report[r].stage = "load" => report[r].cognitive_load_analysis # None

ReportKeys ==
    {"score", "saliency_heatmap", "attention_distribution", "critical_elements",
     "visual_hierarchy", "cognitive_load", "issues", "issue_summary", "recommendations"}

\* C22: a call of analyze_design on an image without contours, or without a contour
\* inside the area band, never stops before its return; the dict it returns has every
\* key of the report, an empty critical_elements list and an attention_priority count
\* of 0, and holds the records of the hierarchy and cognitive-load stages.
C22_NoRegionStillReported ==
    \A r \in Requests :
        /\ (Running(r) /\ NoRegionInBand(design[r])) => Proceeds(r)
        /\ (Returned(r) /\ NoRegionInBand(design[r])) =>
              /\ DOMAIN report[r].returned = ReportKeys
              /\ report[r].returned.critical_elements = <<>>
              /\ report[r].returned.issue_summary.attention_priority = 0
              /\ report[r].returned.visual_hierarchy
                    = HierarchyRecord(report[r].saliency_map.blocks, 3, 3)
              /\ report[r].returned.cognitive_load.metrics.element_count
                    = Len(design[r].contours)
              /\ report[r].returned.cognitive_load.level \in
                    {"Low - Easy to process", "Moderate - Manageable complexity",
                     "High - May overwhelm some users",
                     "Very High - Likely to cause cognitive overload"}

\* a report returned for an image whose only contour is below the area band, and one
\* for an image without contours
C22_Witness ==
    /\ Returned(1)
    /\ Returned(2)
    /\ design[1].contours = <<>>
    /\ Len(design[2].contours) = 1
    /\ NoRegionInBand(design[2])
    /\ report[2].returned.visual_hierarchy.issues # <<>>

BandNames == {"top", "middle", "bottom", "left", "center", "right"}

\* C23: for every image of at least one pixel and every saliency map, no division
\* has a zero divisor and no mean is taken over an empty region: the six band means
\* of _assess_visual_hierarchy and the histogram normalisation of _calculate_entropy
\* give numbers, never NaN.
C23_NoZeroDivisorNoEmptyBand ==
    /\ Assessed =>
          \A b \in BandNames : hierarchy.attention_distribution[b] # NaN
    /\ (entry = "hierarchy" /\ pc = "h_done") => entropy # NaN

\* C28: the 'right-heavy layout' issue is in the list that _assess_visual_hierarchy
\* returns exactly when the mean saliency of the right third of the columns is
\* strictly greater than 1.5 times the mean of the left third, for every pair of
\* means, a left mean of 0 included.
C28_RightHeavyIffAboveOneAndAHalf ==
    Assessed =>
        LET left == InFirstThird(2, img_width)
            right == InLastThird(2, img_width)
        IN Raised(hierarchy.issues, "hierarchy_right_heavy")
              <=> /\ left # {}
                  /\ \A p \in left \cup right : saliency_map.px[p] # NaN
                  /\ 2 * Total(saliency_map.px, right) * Cardinality(left)
                        > 3 * Total(saliency_map.px, left) * Cardinality(right)

\* the issue raised against a left third without any attention
C28_Witness ==
    /\ Assessed
    /\ Raised(hierarchy.issues, "hierarchy_right_heavy")
    /\ InFirstThird(2, img_width) # {}
    /\ Total(saliency_map.px, InFirstThird(2, img_width)) = 0

(***************************************************************************)
(* Properties of SaliencyDataset                                           *)
(***************************************************************************)
Enumerated == entry = "dataset" /\ pc = "d_ready"

HasMap(f) == \E g \in saliency_dir : g.base = f.base

Occurrences(l, f) == Cardinality({k \in 1..Len(l) : l[k] = f})

\* C24: the dataset enumerates exactly the image files of image_dir for which a file
\* with the same base name exists in saliency_dir: each such image once, no other
\* entry, and every sample that __getitem__ gives is an image with its map.
C24_EnumeratesImagesWithSameBaseMap ==
    Enumerated =>
        /\ \A k \in 1..Len(image_dir) :
              Occurrences(dataset_files, image_dir[k])
                  = IF IsImageFile(image_dir[k]) /\ HasMap(image_dir[k]) THEN 1 ELSE 0
        /\ \A k \in 1..Len(dataset_files) :
              \E j \in 1..Len(image_dir) : dataset_files[k] = image_dir[j]
        /\ sample # None =>
              /\ sample.kind = "sample"
              /\ sample.saliency \in saliency_dir
              /\ sample.saliency.base = sample.image.base

C26_EpochStepsInOrder ==
    [][(entry = "train" /\ pc \in TrainPcs /\ pc' # "interrupted") =>
          /\ pc = "loop" =>
                /\ pc' \in {"train_pass", "plot"}
                /\ Len(train_losses) = epoch
                /\ Len(val_losses) = epoch
          /\ pc = "train_pass" =>
                /\ pc' \in {"validate", "crashed_zero_division"}
                /\ Len(val_losses) = epoch
                /\ pc' = "validate" => Len(train_losses') = epoch + 1
          /\ pc = "validate" =>
                /\ pc' \in {"sched_step", "crashed_zero_division"}
                /\ weights' = weights
                /\ pc' = "sched_step" => Len(val_losses') = epoch + 1
          /\ pc = "sched_step" =>
                /\ pc' = "best_decision"
                /\ Len(val_losses) = epoch + 1
                /\ sched_best' = IF IsBetter(val_losses[epoch + 1], sched_best)
                                 THEN val_losses[epoch + 1] ELSE sched_best
          /\ pc = "best_decision" => pc' \in {"best_open", "ckpt_decision"}
          /\ pc = "best_open" => pc' = "best_write"
          /\ pc = "best_write" => pc' = "ckpt_decision"
          /\ pc = "ckpt_decision" => pc' \in {"ckpt_open", "loop"}
          /\ pc = "ckpt_open" => pc' = "ckpt_write"
          /\ pc = "ckpt_write" => pc' = "loop"
          /\ epoch' # epoch =>
                /\ pc \in {"ckpt_decision", "ckpt_write"}
                /\ pc' = "loop"
                /\ epoch' = epoch + 1
          /\ pc' = "loop" => epoch' = epoch + 1
          /\ (val_losses' = val_losses \/ pc = "validate")
          /\ (train_losses' = train_losses \/ pc = "train_pass")]_vars

\* the tenth epoch finished with both saves: the best-model file and the snapshot
\* written after its scheduler step
C26_Witness ==
    /\ entry = "train"
    /\ pc = "loop"
    /\ epoch = CheckpointEvery
    /\ CheckpointEvery \in best_saved
    /\ CheckpointEvery \in DOMAIN ckpt_files
    /\ weights = CheckpointEvery

IssueKeys ==
    {"category", "subcategory", "severity", "confidence", "explanation", "fix_suggestion"}

\* C29: every issue of a report that analyze_design returns has a category, a
\* subcategory, a severity among critical, high, medium, low and info, a confidence
\* between 0 and 1 (here in hundredths), an explanation and a fix_suggestion; and the
\* three counts of issue_summary add up to the length of the issue list.
C29_IssuesCompleteAndCounted ==
    \A r \in Requests :
        Returned(r) =>
            LET rep == report[r].returned
            IN /\ \A k \in 1..Len(rep.issues) :
                     /\ IssueKeys \subseteq DOMAIN rep.issues[k]
                     /\ rep.issues[k].severity
                           \in {"critical", "high", "medium", "low", "info"}
                     /\ rep.issues[k].confidence \in 0..100
                     /\ rep.issues[k].category # ""
                     /\ rep.issues[k].subcategory # ""
                     /\ rep.issues[k].explanation # ""
                     /\ rep.issues[k].fix_suggestion # ""
               /\ rep.issue_summary.attention_priority
                     + rep.issue_summary.visual_hierarchy
                     + rep.issue_summary.cognitive_load = Len(rep.issues)

\* a report with issues of the three stages: both attention-priority issues, two
\* hierarchy issues and three cognitive-load issues
C29_Witness ==
    /\ Returned(1)
    /\ report[1].returned.issue_summary.attention_priority = 2
    /\ report[1].returned.issue_summary.visual_hierarchy = 2
    /\ report[1].returned.issue_summary.cognitive_load >= 2
    /\ Len(report[1].returned.issues) >= 6

\* the epochs of the run are finished: train stands at the head of its loop or
\* after it
BetweenEpochs == entry = "train" /\ pc \in {"loop", "plot", "returned", "done"}

\* C30: after every completed epoch k, best_val_loss is the minimum of the k
\* validation losses recorded, train_losses and val_losses have length k, and the
\* best-model file holds the weights as they were at the end of the earliest epoch
\* that attains this minimum; best_val_loss never increases.
C30_BestIsRunningMinimum ==
    /\ []((BetweenEpochs /\ epoch >= 1) =>
             /\ Len(train_losses) = epoch
             /\ Len(val_losses) = epoch
             /\ best_val_loss = MinBefore(val_losses, epoch + 1)
             /\ \A e \in 1..epoch : best_val_loss <= val_losses[e]
             /\ \E e \in 1..epoch : best_val_loss = val_losses[e]
             /\ best_file = [kind |-> "weights", weights |-> ArgMin(val_losses, epoch)])
    /\ [][entry = "train" => best_val_loss' <= best_val_loss]_vars

\* four epochs done: the minimum reached at the second epoch and tied at the fourth,
\* the file still holding the weights of the second
C30_Witness ==
    /\ BetweenEpochs
    /\ pc = "loop"
    /\ epoch = 4
    /\ val_losses[2] < val_losses[1]
    /\ val_losses[3] > val_losses[2]
    /\ val_losses[4] = val_losses[2]
    /\ best_file = [kind |-> "weights", weights |-> 2]

====
